---- MODULE Spec2Model ----
(***************************************************************************)
(* Resilient build orchestration of HTML2EXE.                              *)
(*                                                                         *)
(*  - BulletProofExporter.export_with_auto_debug                           *)
(*    (src/src/html2exe/core/debugger.py) driving core BuildEngine.build   *)
(*    (src/src/html2exe/core/builder.py): specification Spec.              *)
(*  - BuildEngine.build / cancel of src/html2exe_ultimate_ci.py, a build   *)
(*    thread running against a canceller and the backend child process:    *)
(*    specification SpecCI.                                                *)
(*  - BuildEngine._build_pyinstaller_command of core/builder.py, called    *)
(*    repeatedly on one engine: specification SpecCommand.                 *)
(*  - main of src/src/html2exe/cli.py with convert_html_to_exe of          *)
(*    src/src/html2exe/builder.py: specification SpecCli.                  *)
(*  - HTMLViewer of src/src/html2exe/viewer.py: specification SpecViewer.  *)
(*  - BulletProofExporter._pre_export_validation with the filesystem it    *)
(*    touches: specification SpecPreExport.                                *)
(*  - BuildConfig.validate of core/config.py: specification SpecValidate.  *)
(*  - PreflightChecker.run_all_checks and apply_recommended_settings of    *)
(*    core/preflight.py as the build command runs them: specification      *)
(*    SpecPreflight.                                                       *)
(*  - BuildProgressDialog._build_worker of src/html2exe_pro_premium.py:    *)
(*    specification SpecWorker.                                            *)
(*  - LiveReloadHandler of core/webview_manager.py, the observer thread    *)
(*    against its Timer threads: specification SpecReload.                 *)
(***************************************************************************)
EXTENDS Integers, Sequences, FiniteSets, TLC

VARIABLES
    \* ---- BulletProofExporter (core/debugger.py) ----
    pc,               \* position in export_with_auto_debug
    failing_checks,   \* environment: the validation checks that fail
    strategies,       \* the local list `strategies`
    i,                \* the loop cursor `i` (0-based, as in the code)
    config,           \* value of self.config
    caller_config,    \* value of the object the caller passed to __init__
    aliased,          \* self.config is still the caller's object
    export_history,   \* self.export_history
    export_attempts,  \* self.debugger.export_attempts
    attempts,         \* the _execute_export calls made, in order
    backend_calls,    \* subprocess.run invocations of core BuildEngine.build
    last,             \* backend behaviour, configuration and result of the latest attempt
    result,           \* value returned by export_with_auto_debug
    reports,          \* report files written under output_dir, in order
    build_dir,        \* files present in BuildEngine.build_dir
    \* ---- BuildEngine of html2exe_ultimate_ci.py ----
    bpc,              \* position of the build thread in build()
    status,           \* self.status
    progress,         \* self.progress
    cancel_event,     \* self.cancel_event.is_set()
    process,          \* self.process: "none" or "set" (a Popen object)
    proc,             \* the backend child: "none", "running", "exited"
    signalled,        \* terminate() reached the running child
    returncode,       \* exit code of the child once it exited
    artifact,         \* the expected output file exists on disk
    pipe,             \* lines written by the child and not read yet
    emitted,          \* number of lines the child has written
    temp_dir,         \* self.temp_dir exists on disk
    env,              \* configuration and environment of the build
    cpc,              \* position of the cancelling thread in cancel()
    cancel_status,    \* self.status when cancel() set the event ("" if never)
    build_result,     \* value returned by build(): <<success, message>>
    orphans,          \* children of earlier builds of the GUI still running
    builds,           \* BuildEngine objects run_build has created so far
    \* ---- _build_pyinstaller_command of core BuildEngine (core/builder.py) ----
    cmd_input,        \* configuration, extra hidden imports and platform of the calls
    cmd_files,        \* paths that exist on disk
    cmd_calls,        \* the token lists returned by the calls made, in order
    \* ---- legacy command line (src/html2exe/cli.py, src/html2exe/builder.py) ----
    cli_args,         \* parsed arguments and the paths they name on disk
    cli_backend,      \* environment: what PyInstaller does when it is run
    cli_pc,           \* position in main / convert_html_to_exe
    cli_calls,        \* functions main has called so far, in order
    packaging,        \* check_mode argument of each run_pyinstaller call
    spawned,          \* subprocess.run calls made
    cli_disk,         \* paths on disk under the output and temporary directories
    cli_exit,         \* how main ended: returned, exit code, exception raised
    \* ---- HTMLViewer (src/html2exe/viewer.py) ----
    viewer_temp_dir,  \* self._temp_dir: 0 for None, else the directory made
    tmp_dirs,         \* html2exe_ temporary directories that exist on disk
    made,             \* number of mkdtemp calls so far
    viewer_last,      \* the latest call on the viewer and how it ended
    \* ---- _pre_export_validation of BulletProofExporter (core/debugger.py) ----
    pev_env,          \* environment: failing checks, output directory, permissions
    pev_fs,           \* paths that exist on disk
    pev_k,            \* index of the next check of the loop (1-based)
    pev_result,       \* value returned: "" not yet, "passed", or the failed check
    \* ---- BuildConfig.validate of html2exe_ultimate_ci.py ----
    val_config,       \* the configuration validate is called on, SIMULATE_MODE
    val_errors,       \* the list `errors` that validate returns
    val_called,       \* validate has returned
    \* ---- build command of cli/main.py with PreflightChecker (core/preflight.py) ----
    pf_args,          \* the flags the user passed and what preflight meets
    pf_pc,            \* position in build()
    pf_report,        \* the report of run_all_checks ({} with --skip-preflight)
    pf_config,        \* config.build once it is created
    \* ---- BuildProgressDialog._build_worker of html2exe_pro_premium.py ----
    gw_request,       \* the build request: use_bullet_proof, backend outcome
    gw_pc,            \* position of the worker thread
    gw_events,        \* calls made and handlers scheduled by the worker, in order
    \* ---- LiveReloadHandler (core/webview_manager.py) ----
    pending_reload,   \* self.pending_reload
    timers_waiting,   \* Timer threads started whose delay has not elapsed
    reloads_running,  \* Timer threads inside _reload, after evaluate_js, before finally
    timers_started,   \* threading.Timer(...).start() calls so far
    reloads,          \* evaluate_js('window.location.reload()') calls so far
    file_version,     \* qualifying modifications delivered so far
    page_version      \* file_version at the start of the latest page reload

xvars == <<pc, failing_checks, strategies, i, config, caller_config, aliased,
           export_history, export_attempts, attempts, backend_calls, last, result,
           reports, build_dir>>

cvars == <<bpc, status, progress, cancel_event, process, proc, signalled,
           returncode, artifact, pipe, emitted, temp_dir, env, cpc,
           cancel_status, build_result, orphans, builds>>

mvars == <<cmd_input, cmd_files, cmd_calls>>

lvars == <<cli_args, cli_backend, cli_pc, cli_calls, packaging, spawned,
           cli_disk, cli_exit>>

hvars == <<viewer_temp_dir, tmp_dirs, made, viewer_last>>

pvars == <<pev_env, pev_fs, pev_k, pev_result>>

bvars == <<val_config, val_errors, val_called>>

fvars == <<pf_args, pf_pc, pf_report, pf_config>>

wvars == <<gw_request, gw_pc, gw_events>>

rvars == <<pending_reload, timers_waiting, reloads_running, timers_started, reloads,
           file_version, page_version>>

nvars == <<pvars, bvars, fvars, wvars, rvars>>

vars == <<xvars, cvars, mvars, lvars, hvars, nvars>>

(***************************************************************************)
(* Bounds                                                                  *)
(***************************************************************************)
MaxModules == 2     \* distinct module names a backend output may name
MaxLines == 2       \* output lines the backend child writes in one build
MaxHints == 2       \* length of an extra_hidden_imports list
MaxCalls == 2       \* calls of _build_pyinstaller_command on one engine
MaxBuilds == 2      \* builds started from the GUI one after the other
MaxParts == 3       \* dot-separated parts of an app_version string
MaxMods == 8        \* qualifying modifications delivered to one LiveReloadHandler
MaxRequests == 3    \* build requests made in the premium GUI
MaxDirs == 4        \* temporary directories one HTMLViewer makes

(***************************************************************************)
(* Configuration model (core/config.py)                                    *)
(***************************************************************************)
GeneratedIcon == "build/app_icon.ico"

DefaultBuildConfig ==
    [onefile |-> TRUE, console |-> FALSE, debug |-> FALSE,
     upx_compress |-> FALSE, strip_debug |-> TRUE, icon_path |-> ""]

\* the configurations a caller hands over
CallerConfigs ==
    { [DefaultBuildConfig EXCEPT !.upx_compress = u, !.icon_path = p] :
        u \in BOOLEAN, p \in {"", "user.ico"} }

\* value a strategy's modifications give to field k, d when it sets none
ModValue(mods, k, d) ==
    IF \E m \in mods : m[1] = k THEN (CHOOSE m \in mods : m[1] = k)[2] ELSE d

\* for key, value in strategy["modifications"].items(): setattr(config.build, ...)
ApplyModifications(cfg, mods) ==
    [cfg EXCEPT !.onefile = ModValue(mods, "onefile", @),
                !.console = ModValue(mods, "console", @),
                !.debug = ModValue(mods, "debug", @),
                !.upx_compress = ModValue(mods, "upx_compress", @),
                !.strip_debug = ModValue(mods, "strip_debug", @)]

\* files of the output directory the exporter and the engine write
BuildReport == "dist/build_report.json"

DebugReport == "debug_report.txt"

\* prepare_build: the files it writes into build_dir (folder mode)
PrepareBuildWrites(cfg) ==
    {"html_assets", "main.py"}
    \cup (IF cfg.icon_path = "" THEN {"app_icon.ico"} ELSE {})

\* prepare_build: an icon is generated when none is configured
PrepareIcon(cfg) ==
    IF cfg.icon_path = "" THEN [cfg EXCEPT !.icon_path = GeneratedIcon] ELSE cfg

(***************************************************************************)
(* Validation pipeline of the exporter                                     *)
(***************************************************************************)
validation_checks ==
    << "system_requirements", "source_validity", "dependencies",
       "disk_space", "permissions", "configuration" >>

CheckNames == { validation_checks[k] : k \in 1..Len(validation_checks) }

NoError == [prefix |-> "", out |-> [module |-> "", pats |-> {}]]

\* the loop returns the result of the first check that fails
PreExportValidation(failing) ==
    IF \E k \in 1..Len(validation_checks) : validation_checks[k] \in failing
    THEN LET k == CHOOSE j \in 1..Len(validation_checks) :
                    /\ validation_checks[j] \in failing
                    /\ \A h \in 1..(j-1) : validation_checks[h] \notin failing
         IN [success |-> FALSE,
             error |-> [prefix |-> validation_checks[k],
                        out |-> [module |-> "", pats |-> {}]]]
    ELSE [success |-> TRUE, error |-> NoError]

(***************************************************************************)
(* Strategy queue                                                          *)
(***************************************************************************)
GetExportStrategies ==
    << [name |-> <<"Standard Export">>, modifications |-> {},
        extra_hidden_imports |-> <<>>],
       [name |-> <<"Directory Mode">>,
        modifications |-> {<<"onefile", FALSE>>},
        extra_hidden_imports |-> <<>>],
       [name |-> <<"No UPX Compression">>,
        modifications |-> {<<"upx_compress", FALSE>>},
        extra_hidden_imports |-> <<>>],
       [name |-> <<"Debug Mode">>,
        modifications |-> {<<"debug", TRUE>>, <<"console", TRUE>>},
        extra_hidden_imports |-> <<>>],
       [name |-> <<"Minimal Configuration">>,
        modifications |-> {<<"onefile", FALSE>>, <<"upx_compress", FALSE>>,
                           <<"strip_debug", FALSE>>, <<"debug", TRUE>>},
        extra_hidden_imports |-> <<>>] >>

NewStrategy(missing_module) ==
    [name |-> <<"Add Hidden Import: ", missing_module>>,
     modifications |-> {},
     extra_hidden_imports |-> <<missing_module>>]

\* list.insert(idx, s) with 0 <= idx <= len(list)
ListInsert(list, idx, s) ==
    SubSeq(list, 1, idx) \o <<s>> \o SubSeq(list, idx + 1, Len(list))

\* faulty variant: strategies.append(new_strategy)
InsertAtEnd(list, cur, s) == Append(list, s)

\* faulty variant: strategies.insert(i, new_strategy)
InsertBeforeCurrent(list, cur, s) == ListInsert(list, cur, s)

\* strategies.insert(i + 1, new_strategy)
InsertStrategy(list, cur, s) == ListInsert(list, cur + 1, s)

\* faulty variant: the duplicate test is missing
NeverDuplicate(list, missing_module) == FALSE

\* any(s.get("extra_hidden_imports") == [missing_module] for s in strategies)
IsDuplicate(list, missing_module) ==
    \E k \in 1..Len(list) : list[k].extra_hidden_imports = <<missing_module>>

(***************************************************************************)
(* Backend behaviour and its classification by core BuildEngine.build      *)
(***************************************************************************)
ModuleList == <<"foo", "bar", "baz", "qux">>

\* names as the backend prints them; "Foo" differs from "foo" by case only
ModuleNames == { ModuleList[k] : k \in 1..MaxModules } \cup {"Foo"}

\* str.lower() on the names of the model
Lower(s) == IF s = "Foo" THEN "foo" ELSE IF s = ".HTML" THEN ".html" ELSE s

\* what a backend output holds: the module of a "ModuleNotFoundError: No
\* module named '...'" line ("" when there is none) and the other phrases
\* the diagnosis looks for
BackendOutputs ==
    [module : ModuleNames \cup {""},
     pats : {{}, {"memory"}, {"permission denied", "memory"}}]

EmptyOutput == [module |-> "", pats |-> {}]

\* one attempt's environment: config_ok (does _validate_build_config pass),
\* timeout, exit code, artifact on disk afterwards, captured output
Behaviours ==
    { [config_ok |-> FALSE, timeout |-> FALSE, returncode |-> 0,
       artifact |-> FALSE, out |-> EmptyOutput] }
    \cup { [config_ok |-> TRUE, timeout |-> TRUE, returncode |-> 0,
            artifact |-> a, out |-> EmptyOutput] : a \in BOOLEAN }
    \cup { [config_ok |-> TRUE, timeout |-> FALSE, returncode |-> 1,
            artifact |-> a, out |-> o] : a \in BOOLEAN, o \in BackendOutputs }
    \cup { [config_ok |-> TRUE, timeout |-> FALSE, returncode |-> 0,
            artifact |-> a, out |-> EmptyOutput] : a \in BOOLEAN }

NoBehaviour ==
    [config_ok |-> FALSE, timeout |-> FALSE, returncode |-> 0,
     artifact |-> FALSE, out |-> EmptyOutput]

\* faulty variant: exit code 0 counts as success, the artifact is not checked
ExitCodeOnly(b) ==
    IF ~b.config_ok
    THEN [success |-> FALSE,
          error |-> [prefix |-> "Source folder does not exist", out |-> EmptyOutput]]
    ELSE IF b.timeout
    THEN [success |-> FALSE,
          error |-> [prefix |-> "Build timed out after 20 minutes", out |-> EmptyOutput]]
    ELSE IF b.returncode # 0
    THEN [success |-> FALSE, error |-> [prefix |-> "Build failed: ", out |-> b.out]]
    ELSE [success |-> TRUE, error |-> NoError]

\* _execute_export: the dict build() returns, or the failure dict made from
\* the exception it raised
ExecuteExport(b) ==
    IF ~b.config_ok
    THEN [success |-> FALSE,
          error |-> [prefix |-> "Source folder does not exist", out |-> EmptyOutput]]
    ELSE IF b.timeout
    THEN [success |-> FALSE,
          error |-> [prefix |-> "Build timed out after 20 minutes", out |-> EmptyOutput]]
    ELSE IF b.returncode # 0
    THEN [success |-> FALSE, error |-> [prefix |-> "Build failed: ", out |-> b.out]]
    ELSE IF ~b.artifact
    THEN [success |-> FALSE,
          error |-> [prefix |-> "Executable was not created successfully",
                     out |-> EmptyOutput]]
    ELSE [success |-> TRUE, error |-> NoError]

\* diagnose_export_failure: diagnosis["missing_module"], "" for None.  The
\* regex runs on str(error).lower(), so the captured name is lower case.
MissingModule(error) ==
    IF error.prefix = "Build failed: " /\ error.out.module # ""
    THEN Lower(error.out.module)
    ELSE ""

\* the phrases of str(error).lower() the solution rules look for: those of
\* the backend output, and "build failed" from the prefix build() puts
\* before the output of a non-zero exit
MessagePhrases(error) ==
    error.out.pats
    \cup (IF error.prefix = "Build failed: " THEN {"build failed"} ELSE {})

\* faulty variant: every rule whose phrase occurs adds its solutions
AllMatchingSolutions(error) ==
    LET msg == MessagePhrases(error) IN
    (IF msg \cap {"permission denied", "access denied"} # {}
     THEN {"permission"} ELSE {})
    \cup (IF msg \cap {"module not found", "import error"} # {}
          THEN {"dependencies"} ELSE {})
    \cup (IF msg \cap {"pyinstaller", "build failed"} # {}
          THEN {"pyinstaller"} ELSE {})
    \cup (IF msg \cap {"memory", "out of memory"} # {} THEN {"memory"} ELSE {})
    \cup (IF msg \cap {"disk space", "no space"} # {} THEN {"disk"} ELSE {})

\* diagnose_export_failure, the if/elif chain: the rules whose solutions are
\* put into diagnosis["solutions"]
Solutions(error) ==
    LET msg == MessagePhrases(error) IN
    IF msg \cap {"permission denied", "access denied"} # {} THEN {"permission"}
    ELSE IF msg \cap {"module not found", "import error"} # {} THEN {"dependencies"}
    ELSE IF msg \cap {"pyinstaller", "build failed"} # {} THEN {"pyinstaller"}
    ELSE IF msg \cap {"memory", "out of memory"} # {} THEN {"memory"}
    ELSE IF msg \cap {"disk space", "no space"} # {} THEN {"disk"}
    ELSE {}

\* diagnose_export_failure: the missing-module lookup, then the chain
DiagnoseExportFailure(error) ==
    [missing_module |-> MissingModule(error), solutions |-> Solutions(error)]

(***************************************************************************)
(* export_with_auto_debug                                                  *)
(***************************************************************************)
NoResult == [success |-> FALSE, error |-> NoError, strategy |-> <<>>,
             strategies_tried |-> -1, returned |-> FALSE]

InitExport ==
    /\ pc = "idle"
    /\ failing_checks \in SUBSET CheckNames
    /\ strategies = <<>>
    /\ i = 0
    /\ caller_config \in CallerConfigs
    /\ config = caller_config
    /\ aliased = TRUE
    /\ export_history = <<>>
    /\ export_attempts = 0
    /\ attempts = <<>>
    /\ backend_calls = 0
    /\ last = [behaviour |-> NoBehaviour, config |-> DefaultBuildConfig,
               result |-> [success |-> FALSE, error |-> NoError]]
    /\ result = NoResult
    /\ reports = <<>>
    /\ build_dir = {}

\* lines 126-127: entry of export_with_auto_debug
StartExport ==
    /\ pc = "idle"
    /\ pc' = "validating"
    /\ export_attempts' = export_attempts + 1
    /\ UNCHANGED <<failing_checks, strategies, i, config, caller_config, aliased,
                   export_history, attempts, backend_calls, last, result,
                   reports, build_dir>>
    /\ UNCHANGED <<cvars, mvars, lvars, hvars, nvars>>

\* faulty variant: the validation result is not looked at
ValidateIgnored ==
    /\ pc = "validating"
    /\ pc' = "loop"
    /\ strategies' = GetExportStrategies
    /\ i' = 0
    /\ UNCHANGED <<failing_checks, config, caller_config, aliased, export_history,
                   export_attempts, attempts, backend_calls, last, result,
                   reports, build_dir>>
    /\ UNCHANGED <<cvars, mvars, lvars, hvars, nvars>>

\* lines 130-136: the validation gate, then the queue is seeded
Validate ==
    /\ pc = "validating"
    /\ LET validation_result == PreExportValidation(failing_checks) IN
       IF ~validation_result.success
       THEN /\ pc' = "done"
            /\ result' = [NoResult EXCEPT !.error = validation_result.error,
                                          !.returned = TRUE]
            /\ UNCHANGED <<strategies, i>>
       ELSE /\ pc' = "loop"
            /\ strategies' = GetExportStrategies
            /\ i' = 0
            /\ UNCHANGED result
    /\ UNCHANGED <<failing_checks, config, caller_config, aliased, export_history,
                   export_attempts, attempts, backend_calls, last, reports, build_dir>>
    /\ UNCHANGED <<cvars, mvars, lvars, hvars, nvars>>

\* faulty variant: the loop goes on after a succeeded attempt
KeepTrying(strategy, cfg, res) ==
    /\ pc' = "loop"
    /\ i' = i + 1
    /\ config' = cfg
    /\ UNCHANGED <<strategies, aliased, result, export_history>>

\* faulty variant: a succeeded attempt leaves the loop, the failure report
\* is returned
BreakOnSuccess(strategy, cfg, res) ==
    /\ pc' = "done"
    /\ result' = [NoResult EXCEPT
                    !.error = [prefix |-> "All export strategies failed",
                               out |-> EmptyOutput],
                    !.strategies_tried = Len(export_history),
                    !.returned = TRUE]
    /\ config' = cfg
    /\ UNCHANGED <<strategies, i, aliased, export_history>>

\* lines 153-161: the attempt succeeded, the result is returned
OnSuccess(strategy, cfg, res) ==
    /\ pc' = "done"
    /\ result' = [NoResult EXCEPT !.success = TRUE, !.strategy = strategy.name,
                                  !.returned = TRUE]
    /\ export_history' = Append(export_history,
                                [strategy |-> strategy.name, success |-> TRUE])
    /\ config' = cfg
    /\ UNCHANGED <<strategies, i, aliased>>

\* faulty variant: the first failed attempt ends the run with its own error
FailFast(strategy, cfg, res) ==
    /\ pc' = "done"
    /\ result' = [NoResult EXCEPT !.error = res.error, !.returned = TRUE]
    /\ config' = cfg
    /\ aliased' = FALSE
    /\ UNCHANGED <<strategies, i, export_history>>

\* faulty variant: the configuration of the failed attempt stays in effect
KeptConfig(original_config, built) == built

\* lines 142, 163, 182: self.config = original_config, the deep copy taken
\* before the strategy's modifications were applied
RestoredConfig(original_config, built) == original_config

\* lines 162-184: the attempt failed; restore, diagnose, maybe insert, advance
OnFailure(strategy, cfg, res) ==
    /\ pc' = "loop"
    /\ config' = cfg
    /\ aliased' = FALSE
    /\ LET missing_module == DiagnoseExportFailure(res.error).missing_module IN
       IF missing_module # "" /\ ~IsDuplicate(strategies, missing_module)
       THEN strategies' = InsertStrategy(strategies, i, NewStrategy(missing_module))
       ELSE UNCHANGED strategies
    /\ i' = i + 1
    /\ UNCHANGED <<result, export_history>>

\* lines 137-184: one iteration of the while loop
TryStrategy ==
    /\ pc = "loop"
    /\ i < Len(strategies)
    /\ \E b \in Behaviours :
        LET strategy == strategies[i + 1]
            original_config == config
            modified == ApplyModifications(config, strategy.modifications)
            built == IF b.config_ok THEN PrepareIcon(modified) ELSE modified
            res == ExecuteExport(b)
        IN /\ attempts' = Append(attempts, [strategy |-> strategy.name,
                                          success |-> res.success])
           /\ backend_calls' = IF b.config_ok THEN backend_calls + 1 ELSE backend_calls
           /\ last' = [behaviour |-> b, config |-> modified, result |-> res]
           /\ caller_config' = IF aliased THEN built ELSE caller_config
           /\ build_dir' = IF b.config_ok
                           THEN build_dir \cup PrepareBuildWrites(modified)
                           ELSE build_dir
           /\ reports' = IF res.success
                         THEN Append(reports, BuildReport)
                         ELSE reports
           /\ IF res.success
              THEN OnSuccess(strategy, built, res)
              ELSE OnFailure(strategy, RestoredConfig(original_config, built), res)
    /\ UNCHANGED <<failing_checks, export_attempts>>
    /\ UNCHANGED <<cvars, mvars, lvars, hvars, nvars>>

\* lines 186, 297-315: the queue is exhausted, _generate_failure_report
GenerateFailureReport ==
    /\ pc = "loop"
    /\ i >= Len(strategies)
    /\ pc' = "done"
    /\ result' = [NoResult EXCEPT
                    !.error = [prefix |-> "All export strategies failed",
                               out |-> EmptyOutput],
                    !.strategies_tried = Len(export_history),
                    !.returned = TRUE]
    /\ reports' = Append(reports, DebugReport)
    /\ UNCHANGED <<failing_checks, strategies, i, config, caller_config, aliased,
                   export_history, export_attempts, attempts, backend_calls, last,
                   build_dir>>
    /\ UNCHANGED <<cvars, mvars, lvars, hvars, nvars>>

(***************************************************************************)
(* BuildEngine of html2exe_ultimate_ci.py                                  *)
(***************************************************************************)
NonTerminal == {"validating", "preparing", "building", "signing", "packaging", "testing"}

Terminal == {"completed", "failed", "cancelled"}

\* progress_keywords of _run_pyinstaller, in dictionary order
progress_keywords ==
    << <<"Building", 50>>, <<"Collecting", 55>>, <<"Processing", 60>>,
       <<"Copying", 65>>, <<"Appending", 70>>, <<"Compressing", 75>> >>

\* a line of backend output, named by the first keyword it contains
\* ("none": it contains no keyword)
LineKinds == {"Building", "Collecting", "Compressing", "none"}

\* percentage the loop over progress_keywords reports for a line, -1 for none
KeywordProgress(line) ==
    IF \E k \in 1..Len(progress_keywords) : progress_keywords[k][1] = line
    THEN (CHOOSE e \in {progress_keywords[k] : k \in 1..Len(progress_keywords)} :
              e[1] = line)[2]
    ELSE -1

Environments ==
    [valid : BOOLEAN, has_pyinstaller : BOOLEAN, simulate : BOOLEAN,
     entry_exists : BOOLEAN, sign_executable : BOOLEAN, create_installer : BOOLEAN]

InitCI ==
    /\ bpc = "start"
    /\ status = "idle"
    /\ progress = 0
    /\ cancel_event = FALSE
    /\ process = "none"
    /\ proc = "none"
    /\ signalled = FALSE
    /\ returncode = 0
    /\ artifact = FALSE
    /\ pipe = <<>>
    /\ emitted = 0
    /\ temp_dir = FALSE
    /\ env \in Environments
    /\ cpc = "idle"
    /\ cancel_status = ""
    /\ build_result = <<FALSE, "">>
    /\ orphans = 0
    /\ builds = 1

\* _cleanup in the finally clause, skipped in simulate mode: the values
\* temp_dir can have afterwards.  shutil.rmtree(temp_dir, ignore_errors=True)
\* runs while the child, started with cwd=temp_dir and its work path below
\* it, may still be running: the removal can then fail and the error is
\* dropped.
Cleanup ==
    IF env.simulate THEN {temp_dir}
    ELSE IF temp_dir /\ proc = "running" THEN BOOLEAN
    ELSE {FALSE}

\* faulty variant: the handler sets FAILED and returns success
FailedReturnsTrue(message) ==
    /\ status' = "failed"
    /\ build_result' = <<TRUE, message>>
    /\ temp_dir' \in Cleanup
    /\ bpc' = "returned"

\* except BuildError / except Exception, then finally
Failed(message) ==
    /\ status' = "failed"
    /\ build_result' = <<FALSE, message>>
    /\ temp_dir' \in Cleanup
    /\ bpc' = "returned"

\* except BuildCancelled, then finally
Cancelled ==
    /\ status' = "cancelled"
    /\ build_result' = <<FALSE, "Build cancelled">>
    /\ temp_dir' \in Cleanup
    /\ bpc' = "returned"

\* build(): self._update_status(BuildStatus.VALIDATING)
BuildStart ==
    /\ bpc = "start"
    /\ status' = "validating"
    /\ bpc' = "validate"
    /\ UNCHANGED <<progress, cancel_event, process, proc, signalled, returncode,
                   artifact, pipe, emitted, temp_dir, env, cpc, cancel_status,
                   build_result>>
    /\ UNCHANGED <<xvars, mvars, lvars, hvars, nvars, orphans, builds>>

\* config.validate(), _check_dependencies, _check_cancelled, mkdir, PREPARING
ValidateConfig ==
    /\ bpc = "validate"
    /\ IF ~env.valid
       THEN /\ Failed("Validation failed")
            /\ UNCHANGED progress
       ELSE /\ progress' = 5
            /\ IF ~env.simulate /\ ~env.has_pyinstaller
               THEN Failed("PyInstaller is required but not detected")
               ELSE IF cancel_event
               THEN Cancelled
               ELSE /\ temp_dir' = TRUE
                    /\ status' = "preparing"
                    /\ bpc' = "prepare_resources"
                    /\ UNCHANGED build_result
    /\ UNCHANGED <<cancel_event, process, proc, signalled, returncode, artifact,
                   pipe, emitted, env, cpc, cancel_status>>
    /\ UNCHANGED <<xvars, mvars, lvars, hvars, nvars, orphans, builds>>

\* _prepare_resources, _check_cancelled
PrepareResources ==
    /\ bpc = "prepare_resources"
    /\ progress' = 10
    /\ IF ~env.simulate /\ ~env.entry_exists
       THEN Failed("Entry file not found")
       ELSE IF cancel_event
       THEN Cancelled
       ELSE /\ bpc' = "generate_launcher"
            /\ UNCHANGED <<status, build_result, temp_dir>>
    /\ UNCHANGED <<cancel_event, process, proc, signalled, returncode, artifact,
                   pipe, emitted, env, cpc, cancel_status>>
    /\ UNCHANGED <<xvars, mvars, lvars, hvars, nvars, orphans, builds>>

\* _generate_launcher, _check_cancelled
GenerateLauncher ==
    /\ bpc = "generate_launcher"
    /\ progress' = 20
    /\ IF cancel_event
       THEN Cancelled
       ELSE /\ bpc' = "generate_version_file"
            /\ UNCHANGED <<status, build_result, temp_dir>>
    /\ UNCHANGED <<cancel_event, process, proc, signalled, returncode, artifact,
                   pipe, emitted, env, cpc, cancel_status>>
    /\ UNCHANGED <<xvars, mvars, lvars, hvars, nvars, orphans, builds>>

\* _generate_version_file, _check_cancelled
GenerateVersionFile ==
    /\ bpc = "generate_version_file"
    /\ progress' = 25
    /\ IF cancel_event
       THEN Cancelled
       ELSE /\ bpc' = "create_spec"
            /\ UNCHANGED <<status, build_result, temp_dir>>
    /\ UNCHANGED <<cancel_event, process, proc, signalled, returncode, artifact,
                   pipe, emitted, env, cpc, cancel_status>>
    /\ UNCHANGED <<xvars, mvars, lvars, hvars, nvars, orphans, builds>>

\* faulty variant: the simulate exit is missing
CreateSpecThenBuild ==
    /\ bpc = "create_spec"
    /\ progress' = 30
    /\ IF cancel_event
       THEN Cancelled
       ELSE /\ status' = "building"
            /\ bpc' = "run_pyinstaller"
            /\ UNCHANGED <<build_result, temp_dir>>
    /\ UNCHANGED <<cancel_event, process, proc, signalled, returncode, artifact,
                   pipe, emitted, env, cpc, cancel_status>>
    /\ UNCHANGED <<xvars, mvars, lvars, hvars, nvars, orphans, builds>>

\* _create_spec, _check_cancelled, then the simulate exit or BUILDING
CreateSpec ==
    /\ bpc = "create_spec"
    /\ IF cancel_event
       THEN /\ progress' = 30
            /\ Cancelled
       ELSE IF env.simulate
       THEN /\ status' = "completed"
            /\ progress' = 100
            /\ build_result' = <<TRUE, "SIMULATE OK">>
            /\ bpc' = "returned"
            /\ UNCHANGED temp_dir
       ELSE /\ progress' = 30
            /\ status' = "building"
            /\ bpc' = "run_pyinstaller"
            /\ UNCHANGED <<build_result, temp_dir>>
    /\ UNCHANGED <<cancel_event, process, proc, signalled, returncode, artifact,
                   pipe, emitted, env, cpc, cancel_status>>
    /\ UNCHANGED <<xvars, mvars, lvars, hvars, nvars, orphans, builds>>

\* _run_pyinstaller: self.process = subprocess.Popen(...)
SpawnBackend ==
    /\ bpc = "run_pyinstaller"
    /\ progress' = 40
    /\ process' = "set"
    /\ proc' = "running"
    /\ bpc' = "read_output"
    /\ UNCHANGED <<status, cancel_event, signalled, returncode, artifact, pipe,
                   emitted, temp_dir, env, cpc, cancel_status, build_result>>
    /\ UNCHANGED <<xvars, mvars, lvars, hvars, nvars, orphans, builds>>

\* one iteration of `for line in self.process.stdout`
ReadLine ==
    /\ bpc = "read_output"
    /\ pipe # <<>>
    /\ pipe' = Tail(pipe)
    /\ IF cancel_event
       THEN /\ signalled' = (signalled \/ proc = "running")
            /\ Cancelled
            /\ UNCHANGED progress
       ELSE /\ progress' = IF KeywordProgress(Head(pipe)) >= 0
                           THEN KeywordProgress(Head(pipe)) ELSE progress
            /\ UNCHANGED <<signalled, status, build_result, temp_dir, bpc>>
    /\ UNCHANGED <<cancel_event, process, proc, returncode, artifact, emitted,
                   env, cpc, cancel_status>>
    /\ UNCHANGED <<xvars, mvars, lvars, hvars, nvars, orphans, builds>>

\* after process.wait(): "" when the build step succeeded, else the
\* BuildError message
ClassifyBackend ==
    IF returncode # 0 THEN "PyInstaller build failed"
    ELSE IF ~artifact THEN "Output not found"
    ELSE ""

\* end of stdout, process.wait(), exit code and output file checks
ReadEOF ==
    /\ bpc = "read_output"
    /\ pipe = <<>>
    /\ proc = "exited"
    /\ IF ClassifyBackend # ""
       THEN Failed(ClassifyBackend)
       ELSE /\ bpc' = "check_built"
            /\ UNCHANGED <<status, build_result, temp_dir>>
    /\ UNCHANGED <<progress, cancel_event, process, proc, signalled, returncode,
                   artifact, pipe, emitted, env, cpc, cancel_status>>
    /\ UNCHANGED <<xvars, mvars, lvars, hvars, nvars, orphans, builds>>

\* the _check_cancelled that follows _run_pyinstaller
CheckAfterBuild ==
    /\ bpc = "check_built"
    /\ IF cancel_event
       THEN Cancelled
       ELSE /\ bpc' = "built"
            /\ UNCHANGED <<status, build_result, temp_dir>>
    /\ UNCHANGED <<progress, cancel_event, process, proc, signalled, returncode,
                   artifact, pipe, emitted, env, cpc, cancel_status>>
    /\ UNCHANGED <<xvars, mvars, lvars, hvars, nvars, orphans, builds>>

\* status update that opens the next phase after BUILDING
EnterPostBuild ==
    /\ bpc = "built"
    /\ IF env.sign_executable
       THEN status' = "signing" /\ bpc' = "sign"
       ELSE IF env.create_installer
       THEN status' = "packaging" /\ bpc' = "package"
       ELSE status' = "testing" /\ bpc' = "test"
    /\ UNCHANGED <<progress, cancel_event, process, proc, signalled, returncode,
                   artifact, pipe, emitted, temp_dir, env, cpc, cancel_status,
                   build_result>>
    /\ UNCHANGED <<xvars, mvars, lvars, hvars, nvars, orphans, builds>>

\* _sign_executable (its failures are logged only), next status update
SignExecutable ==
    /\ bpc = "sign"
    /\ progress' = 85
    /\ IF env.create_installer
       THEN status' = "packaging" /\ bpc' = "package"
       ELSE status' = "testing" /\ bpc' = "test"
    /\ UNCHANGED <<cancel_event, process, proc, signalled, returncode, artifact,
                   pipe, emitted, temp_dir, env, cpc, cancel_status, build_result>>
    /\ UNCHANGED <<xvars, mvars, lvars, hvars, nvars, orphans, builds>>

\* _create_installer (its failures are logged only), TESTING
CreateInstaller ==
    /\ bpc = "package"
    /\ progress' = 90
    /\ status' = "testing"
    /\ bpc' = "test"
    /\ UNCHANGED <<cancel_event, process, proc, signalled, returncode, artifact,
                   pipe, emitted, temp_dir, env, cpc, cancel_status, build_result>>
    /\ UNCHANGED <<xvars, mvars, lvars, hvars, nvars, orphans, builds>>

\* _test_executable, COMPLETED, return, finally
TestExecutable ==
    /\ bpc = "test"
    /\ progress' = 95
    /\ status' = "completed"
    /\ build_result' = <<TRUE, "output_path">>
    /\ temp_dir' \in Cleanup
    /\ bpc' = "returned"
    /\ UNCHANGED <<cancel_event, process, proc, signalled, returncode, artifact,
                   pipe, emitted, env, cpc, cancel_status>>
    /\ UNCHANGED <<xvars, mvars, lvars, hvars, nvars, orphans, builds>>

\* cancel(): self.cancel_event.set()
CancelSet ==
    /\ cpc = "idle"
    /\ bpc # "returned"
    /\ cancel_event' = TRUE
    /\ cancel_status' = status
    /\ cpc' = "terminate"
    /\ UNCHANGED <<bpc, status, progress, process, proc, signalled, returncode,
                   artifact, pipe, emitted, temp_dir, env, build_result>>
    /\ UNCHANGED <<xvars, mvars, lvars, hvars, nvars, orphans, builds>>

\* cancel(): if self.process: self.process.terminate()
CancelTerminate ==
    /\ cpc = "terminate"
    /\ signalled' = (signalled \/ (process = "set" /\ proc = "running"))
    /\ cpc' = "done"
    /\ UNCHANGED <<bpc, status, progress, cancel_event, process, proc, returncode,
                   artifact, pipe, emitted, temp_dir, env, cancel_status,
                   build_result>>
    /\ UNCHANGED <<xvars, mvars, lvars, hvars, nvars, orphans, builds>>

\* the backend child writes a line to its stdout
ProcEmit ==
    /\ proc = "running"
    /\ emitted < MaxLines
    /\ \E line \in LineKinds : pipe' = Append(pipe, line)
    /\ emitted' = emitted + 1
    /\ UNCHANGED <<bpc, status, progress, cancel_event, process, proc, signalled,
                   returncode, artifact, temp_dir, env, cpc, cancel_status,
                   build_result>>
    /\ UNCHANGED <<xvars, mvars, lvars, hvars, nvars, orphans, builds>>

\* the backend child ends: killed by the signal, or by itself
ProcExit ==
    /\ proc = "running"
    /\ proc' = "exited"
    /\ IF signalled
       THEN returncode' = -15 /\ UNCHANGED artifact
       ELSE \E rc \in {0, 1}, a \in BOOLEAN : returncode' = rc /\ artifact' = a
    /\ UNCHANGED <<bpc, status, progress, cancel_event, process, signalled, pipe,
                   emitted, temp_dir, env, cpc, cancel_status, build_result>>
    /\ UNCHANGED <<xvars, mvars, lvars, hvars, nvars, orphans, builds>>

\* HTML2EXEApp.start_build / run_build once the previous build() returned
\* and the build button is enabled again: the configuration is validated,
\* a new BuildEngine replaces self.build_engine and its build() starts.  The
\* child of the previous engine, when still running, is left to itself.
\* run_build constructs BuildEngine(self.config): never a simulate engine.
StartNextBuild ==
    /\ bpc = "returned"
    /\ cpc # "terminate"
    /\ env.valid
    /\ ~env.simulate
    /\ builds < MaxBuilds
    /\ builds' = builds + 1
    /\ orphans' = IF proc = "running" THEN orphans + 1 ELSE orphans
    /\ bpc' = "start"
    /\ status' = "idle"
    /\ progress' = 0
    /\ cancel_event' = FALSE
    /\ process' = "none"
    /\ proc' = "none"
    /\ signalled' = FALSE
    /\ returncode' = 0
    /\ pipe' = <<>>
    /\ emitted' = 0
    /\ temp_dir' = FALSE
    /\ cpc' = "idle"
    /\ cancel_status' = ""
    /\ build_result' = <<FALSE, "">>
    /\ UNCHANGED <<artifact, env>>
    /\ UNCHANGED <<xvars, mvars, lvars, hvars, nvars>>

\* a child left behind by an earlier build ends
OrphanExit ==
    /\ orphans > 0
    /\ orphans' = orphans - 1
    /\ UNCHANGED <<bpc, status, progress, cancel_event, process, proc, signalled,
                   returncode, artifact, pipe, emitted, temp_dir, env, cpc,
                   cancel_status, build_result, builds>>
    /\ UNCHANGED <<xvars, mvars, lvars, hvars, nvars>>

NextCI ==
    \/ BuildStart
    \/ ValidateConfig
    \/ PrepareResources
    \/ GenerateLauncher
    \/ GenerateVersionFile
    \/ CreateSpec
    \/ SpawnBackend
    \/ ReadLine
    \/ ReadEOF
    \/ CheckAfterBuild
    \/ EnterPostBuild
    \/ SignExecutable
    \/ CreateInstaller
    \/ TestExecutable
    \/ CancelSet
    \/ CancelTerminate
    \/ ProcEmit
    \/ ProcExit
    \/ StartNextBuild
    \/ OrphanExit

(***************************************************************************)
(* _build_pyinstaller_command of core BuildEngine (core/builder.py)        *)
(***************************************************************************)
\* a command-line token is the tuple of the parts its f-string joins
MainScriptPath == "build/main.py"

HtmlAssets == "build/html_assets"

VersionFile == "build/version_info.txt"

hidden_imports ==
    << "flask", "webview", "threading", "json", "os", "sys", "time",
       "importlib.metadata", "importlib.util", "pathlib", "pkgutil",
       "platform", "socket", "urllib.parse", "urllib.request", "urllib.error" >>

\* lists of at most n names of S
SeqsUpTo(S, n) == UNION { [1..k -> S] : k \in 0..n }

\* extra_hidden_imports: None or an empty list is <<>>
HintLists == SeqsUpTo({ ModuleList[k] : k \in 1..MaxModules }, MaxHints)

\* configuration, hints and platform a command is built for
CommandInputs ==
    [build : [onefile : BOOLEAN, console : BOOLEAN, debug : BOOLEAN,
              upx_compress : BOOLEAN, strip_debug : {TRUE},
              icon_path : {"", "user.ico"}],
     name : {"app"},
     company : {"", "ACME"},
     source_type : {"folder", "url"},
     platform : {"win32", "linux"},
     extra_hidden_imports : HintLists]

\* cmd.append(tok) under a condition
Option(cond, tok) == IF cond THEN <<tok>> ELSE <<>>

\* faulty variant: the version file is written, and its option added, only
\* when the file is not on disk yet
VersionFileOnce(main_script_path, extra, inp, files) ==
    << <<"python">>, <<"-m">>, <<"PyInstaller">>, <<"--noconfirm">>, <<"--clean">>,
       <<"--name=", inp.name>>, <<"--distpath=", "dist">>,
       <<"--workpath=", "build/work">>, <<"--specpath=", "build">> >>
    \o Option(inp.build.onefile, <<"--onefile">>)
    \o Option(~inp.build.console, <<"--windowed">>)
    \o Option(inp.build.icon_path # "" /\ inp.build.icon_path \in files,
              <<"--icon=", inp.build.icon_path>>)
    \o Option(inp.source_type = "folder" /\ HtmlAssets \in files,
              <<"--add-data=", HtmlAssets,
                IF inp.platform = "win32" THEN ";" ELSE ":", "html_assets">>)
    \o [k \in 1..Len(hidden_imports \o extra) |->
           <<"--hidden-import=", (hidden_imports \o extra)[k]>>]
    \o Option(inp.platform = "win32" /\ inp.company # "" /\ VersionFile \notin files,
              <<"--version-file=", VersionFile>>)
    \o Option(inp.build.upx_compress, <<"--upx-dir=upx">>)
    \o (IF inp.build.debug THEN << <<"--debug=all">> >> ELSE << <<"--strip">> >>)
    \o << <<main_script_path>> >>

\* _build_pyinstaller_command(main_script_path, extra_hidden_imports) on the
\* engine's configuration inp, with `files` the paths that exist
BuildPyinstallerCommand(main_script_path, extra, inp, files) ==
    << <<"python">>, <<"-m">>, <<"PyInstaller">>, <<"--noconfirm">>, <<"--clean">>,
       <<"--name=", inp.name>>, <<"--distpath=", "dist">>,
       <<"--workpath=", "build/work">>, <<"--specpath=", "build">> >>
    \o Option(inp.build.onefile, <<"--onefile">>)
    \o Option(~inp.build.console, <<"--windowed">>)
    \o Option(inp.build.icon_path # "" /\ inp.build.icon_path \in files,
              <<"--icon=", inp.build.icon_path>>)
    \o Option(inp.source_type = "folder" /\ HtmlAssets \in files,
              <<"--add-data=", HtmlAssets,
                IF inp.platform = "win32" THEN ";" ELSE ":", "html_assets">>)
    \o [k \in 1..Len(hidden_imports \o extra) |->
           <<"--hidden-import=", (hidden_imports \o extra)[k]>>]
    \o Option(inp.platform = "win32" /\ inp.company # "",
              <<"--version-file=", VersionFile>>)
    \o Option(inp.build.upx_compress, <<"--upx-dir=upx">>)
    \o (IF inp.build.debug THEN << <<"--debug=all">> >> ELSE << <<"--strip">> >>)
    \o << <<main_script_path>> >>

\* the file the command builder writes: version_info.txt
BuilderWrites(inp) ==
    IF inp.platform = "win32" /\ inp.company # "" THEN {VersionFile} ELSE {}

InitCommand ==
    /\ cmd_input \in CommandInputs
    /\ cmd_files \in SUBSET {"user.ico", HtmlAssets}
    /\ cmd_calls = <<>>

\* one call of _build_pyinstaller_command
BuildCommand ==
    /\ Len(cmd_calls) < MaxCalls
    /\ cmd_calls' = Append(cmd_calls,
                           BuildPyinstallerCommand(MainScriptPath,
                               cmd_input.extra_hidden_imports, cmd_input, cmd_files))
    /\ cmd_files' = cmd_files \cup BuilderWrites(cmd_input)
    /\ UNCHANGED cmd_input
    /\ UNCHANGED <<xvars, cvars, lvars, hvars, nvars>>

(***************************************************************************)
(* Legacy command line: main (src/html2exe/cli.py) and                     *)
(* convert_html_to_exe (src/html2exe/builder.py)                           *)
(***************************************************************************)
OutputDir == "out"
OutputPath == "out/app.exe"
TempDir == "tmp"

\* what --input names: nothing, a file with some suffix, a directory with or
\* without index.html, or something that is neither file nor directory
InputPaths ==
    {[kind |-> "missing", suffix |-> s, has_index |-> FALSE] : s \in {".html", ""}}
    \cup {[kind |-> "file", suffix |-> s, has_index |-> FALSE] :
              s \in {".html", ".HTML", ".txt"}}
    \cup {[kind |-> "dir", suffix |-> "", has_index |-> b] : b \in BOOLEAN}
    \cup {[kind |-> "other", suffix |-> "", has_index |-> FALSE]}

\* how the PyInstaller child ends: it writes the executable and exits 0, it
\* exits non-zero, or it exits 0 without writing the executable
CliBackends == {"built", "exit_nonzero", "no_artifact"}

\* validate_input: "" when the path is accepted, else the ValueError text
validate_input(input_path) ==
    IF input_path.kind = "missing" THEN "does not exist"
    ELSE IF input_path.kind = "file"
         THEN IF Lower(input_path.suffix) # ".html" THEN "must be HTML" ELSE ""
    ELSE IF input_path.kind = "dir"
         THEN IF ~input_path.has_index THEN "must contain index.html" ELSE ""
    ELSE "Invalid input path"

\* a main that tests only the existence of the input
ChecksExistenceOnly(input_path) ==
    IF input_path.kind = "missing" THEN "does not exist" ELSE ""

\* the three tests main makes before it converts: "" when all pass
MainChecks(input_path) ==
    IF input_path.kind = "missing" THEN "does not exist"
    ELSE IF input_path.kind = "file" /\ Lower(input_path.suffix) # ".html"
         THEN "must be HTML"
    ELSE IF input_path.kind = "dir" /\ ~input_path.has_index
         THEN "must contain index.html"
    ELSE ""

\* subprocess.run(cmd, check=True) followed by the test that the executable
\* exists: the child is spawned; exc is the exception raised ("" for none)
SubprocessRun(backend, disk) ==
    IF backend = "exit_nonzero"
    THEN [spawned |-> 1, disk |-> disk, exc |-> "CalledProcessError"]
    ELSE LET d == IF backend = "built" THEN disk \cup {OutputPath} ELSE disk
         IN  [spawned |-> 1, disk |-> d,
              exc |-> IF OutputPath \in d THEN "" ELSE "RuntimeError"]

\* a packaging step that runs the backend whatever check_mode says
BuildsAlways(check_mode, backend, disk) == SubprocessRun(backend, disk)

\* run_pyinstaller(viewer_script, assets_dir, output_path, check_mode)
run_pyinstaller(check_mode, backend, disk) ==
    IF check_mode
    THEN [spawned |-> 0, disk |-> disk, exc |-> ""]
    ELSE SubprocessRun(backend, disk)

NotReturned == [returned |-> FALSE, code |-> 0, raised |-> ""]

\* `return code` of main
Return(code) == [returned |-> TRUE, code |-> code, raised |-> ""]

\* main's `except Exception`: every exception of the conversion becomes 1
MainExcept(exc) == Return(1)

\* files of the TemporaryDirectory of convert_html_to_exe
TempFiles == {TempDir, "tmp/html_assets", "tmp/viewer.py"}

InitCli ==
    /\ cli_args \in [input : InputPaths, check : BOOLEAN, output_exists : BOOLEAN]
    /\ cli_backend \in CliBackends
    /\ cli_pc = "main"
    /\ cli_calls = <<>>
    /\ packaging = <<>>
    /\ spawned = 0
    /\ cli_disk = IF cli_args.output_exists THEN {OutputDir, OutputPath} ELSE {}
    /\ cli_exit = NotReturned

\* main up to the call of convert_html_to_exe
Main ==
    /\ cli_pc = "main"
    /\ IF MainChecks(cli_args.input) # ""
       THEN /\ cli_exit' = Return(1)
            /\ cli_pc' = "returned"
            /\ UNCHANGED cli_calls
       ELSE /\ cli_calls' = Append(cli_calls, "convert_html_to_exe")
            /\ cli_pc' = "validate"
            /\ UNCHANGED cli_exit
    /\ UNCHANGED <<cli_args, cli_backend, packaging, spawned, cli_disk>>
    /\ UNCHANGED <<xvars, cvars, mvars, hvars, nvars>>

\* convert_html_to_exe: validate_input, the output directory, the
\* TemporaryDirectory
ConvertValidate ==
    /\ cli_pc = "validate"
    /\ cli_calls' = Append(cli_calls, "validate_input")
    /\ IF validate_input(cli_args.input) # ""
       THEN /\ cli_exit' = MainExcept("ValueError")
            /\ cli_pc' = "returned"
            /\ UNCHANGED cli_disk
       ELSE /\ cli_disk' = cli_disk \cup {OutputDir, TempDir}
            /\ cli_pc' = "prepare"
            /\ UNCHANGED cli_exit
    /\ UNCHANGED <<cli_args, cli_backend, packaging, spawned>>
    /\ UNCHANGED <<xvars, cvars, mvars, hvars, nvars>>

\* prepare_assets and create_viewer_script
PrepareAssets ==
    /\ cli_pc = "prepare"
    /\ cli_calls' = cli_calls \o <<"prepare_assets", "create_viewer_script">>
    /\ cli_disk' = cli_disk \cup TempFiles
    /\ cli_pc' = "package"
    /\ UNCHANGED <<cli_args, cli_backend, packaging, spawned, cli_exit>>
    /\ UNCHANGED <<xvars, cvars, mvars, hvars, nvars>>

\* run_pyinstaller, the end of the with block, and main's return
RunPyinstaller ==
    /\ cli_pc = "package"
    /\ LET r == run_pyinstaller(cli_args.check, cli_backend, cli_disk)
       IN  /\ cli_calls' = Append(cli_calls, "run_pyinstaller")
           /\ packaging' = Append(packaging, cli_args.check)
           /\ spawned' = spawned + r.spawned
           /\ cli_disk' = r.disk \ TempFiles
           /\ cli_exit' = IF r.exc = "" THEN Return(0) ELSE MainExcept(r.exc)
    /\ cli_pc' = "returned"
    /\ UNCHANGED <<cli_args, cli_backend>>
    /\ UNCHANGED <<xvars, cvars, mvars, hvars, nvars>>

(***************************************************************************)
(* HTMLViewer (src/html2exe/viewer.py)                                     *)
(***************************************************************************)
\* what assets_source names: nothing, a directory, or a plain file
AssetSources == {"missing", "dir", "file"}

InitViewer ==
    /\ viewer_temp_dir = 0
    /\ tmp_dirs = {}
    /\ made = 0
    /\ viewer_last = [op |-> "__init__", raised |-> "", before |-> 0]

\* extract_assets(assets_source): a missing source raises before anything is
\* assigned; copytree raises on a source that is not a directory, after
\* mkdtemp and the assignment
ExtractAssets ==
    /\ \E assets_source \in AssetSources :
          IF assets_source = "missing"
          THEN /\ viewer_last' = [op |-> "extract_assets", raised |-> "RuntimeError",
                                  before |-> viewer_temp_dir]
               /\ UNCHANGED <<viewer_temp_dir, tmp_dirs, made>>
          ELSE /\ made < MaxDirs
               /\ made' = made + 1
               /\ tmp_dirs' = tmp_dirs \cup {made + 1}
               /\ viewer_temp_dir' = made + 1
               /\ viewer_last' = [op |-> "extract_assets",
                                  raised |-> IF assets_source = "file"
                                             THEN "NotADirectoryError" ELSE "",
                                  before |-> viewer_temp_dir]
    /\ UNCHANGED <<xvars, cvars, mvars, lvars, nvars>>

\* cleanup(): rmtree and the assignment of None are both under the test
\* `self._temp_dir and self._temp_dir.exists()`
ViewerCleanup ==
    /\ IF viewer_temp_dir # 0 /\ viewer_temp_dir \in tmp_dirs
       THEN /\ tmp_dirs' = tmp_dirs \ {viewer_temp_dir}
            /\ viewer_temp_dir' = 0
       ELSE UNCHANGED <<viewer_temp_dir, tmp_dirs>>
    /\ viewer_last' = [op |-> "cleanup", raised |-> "", before |-> viewer_temp_dir]
    /\ UNCHANGED made
    /\ UNCHANGED <<xvars, cvars, mvars, lvars, nvars>>

\* something other than the viewer removes one of the temporary directories
\* (they live in the system's temporary directory)
RemovedOutside ==
    /\ \E d \in tmp_dirs : tmp_dirs' = tmp_dirs \ {d}
    /\ UNCHANGED <<viewer_temp_dir, made, viewer_last>>
    /\ UNCHANGED <<xvars, cvars, mvars, lvars, nvars>>


(***************************************************************************)
(* _pre_export_validation and the filesystem (core/debugger.py)            *)
(***************************************************************************)
\* config.build.output_dir and the probe file of _check_permissions
ExportOutputDir == "dist"
TestWriteFile == "dist/test_write.tmp"

\* how far _check_permissions gets: all of it, makedirs raises, open raises,
\* os.remove raises
PermissionOutcomes == {"ok", "no_mkdir", "no_write", "no_remove"}

\* the environments of a validation: the checks other than the permission
\* check that fail, whether output_dir exists, and what the permission check
\* meets (makedirs cannot fail on a directory that exists)
ValidationEnvs ==
    { e \in [failing : SUBSET (CheckNames \ {"permissions"}),
             output_dir_exists : BOOLEAN,
             permissions : PermissionOutcomes] :
        e.output_dir_exists => e.permissions # "no_mkdir" }

\* the filesystem before the validation
FsBefore(e) == IF e.output_dir_exists THEN {ExportOutputDir} ELSE {}

\* _check_permissions: the paths on disk afterwards
CheckPermissionsFs(fs, outcome) ==
    IF outcome = "no_mkdir" THEN fs
    ELSE IF outcome = "no_remove" THEN fs \cup {ExportOutputDir, TestWriteFile}
    ELSE fs \cup {ExportOutputDir}

InitPreExport ==
    /\ pev_env \in ValidationEnvs
    /\ pev_fs = FsBefore(pev_env)
    /\ pev_k = 1
    /\ pev_result = ""

\* the value the loop produces after check k ended with `failed`
AfterCheck(k, failed) ==
    IF failed THEN validation_checks[k]
    ELSE IF k = Len(validation_checks) THEN "passed"
    ELSE ""

\* one iteration of the loop for a check that only reads its environment
RunCheck ==
    /\ pev_result = ""
    /\ pev_k <= Len(validation_checks)
    /\ validation_checks[pev_k] # "permissions"
    /\ pev_result' = AfterCheck(pev_k, validation_checks[pev_k] \in pev_env.failing)
    /\ pev_k' = pev_k + 1
    /\ UNCHANGED <<pev_env, pev_fs>>
    /\ UNCHANGED <<xvars, cvars, mvars, lvars, hvars, bvars, fvars, wvars, rvars>>

\* the iteration that runs _check_permissions
CheckPermissions ==
    /\ pev_result = ""
    /\ pev_k <= Len(validation_checks)
    /\ validation_checks[pev_k] = "permissions"
    /\ pev_fs' = CheckPermissionsFs(pev_fs, pev_env.permissions)
    /\ pev_result' = AfterCheck(pev_k, pev_env.permissions # "ok")
    /\ pev_k' = pev_k + 1
    /\ UNCHANGED pev_env
    /\ UNCHANGED <<xvars, cvars, mvars, lvars, hvars, bvars, fvars, wvars, rvars>>

(***************************************************************************)
(* BuildConfig.validate of html2exe_ultimate_ci.py                         *)
(***************************************************************************)
\* a part of app_version.split('.'): digits, something int() rejects, or
\* nothing (between two dots, or of the empty string)
PartKinds == {"1", "x", ""}

\* app_version.split('.') for the version strings of the model
VersionStrings ==
    UNION { [1..n -> PartKinds] : n \in 1..MaxParts }

\* int(part) raises ValueError
NotAnInt(part) == part # "1"

\* the configurations validate is called on: name, source and icon with
\* whether the paths exist, version, and the global SIMULATE_MODE
ValidateInputs ==
    [app_name : {"MyApp", "My App", "My.App", ""},
     source_path : {"", "site"}, source_exists : BOOLEAN,
     icon_path : {"", "app.ico"}, icon_exists : BOOLEAN,
     app_version : VersionStrings,
     simulate_mode : BOOLEAN]

\* app_name.replace(" ", "").replace("_", "").replace("-", "").isalnum()
NameIsAlnum(app_name) == app_name \in {"MyApp", "My App"}

NameErrors(c) ==
    IF c.app_name = "" \/ ~NameIsAlnum(c.app_name)
    THEN <<"App name must contain alphanumeric characters">> ELSE <<>>

SourceErrors(c) ==
    IF c.source_path = "" THEN <<"Source path is required">>
    ELSE IF ~c.simulate_mode /\ ~c.source_exists THEN <<"Source path not found">>
    ELSE <<>>

IconErrors(c) ==
    IF c.icon_path # "" /\ ~c.simulate_mode /\ ~c.icon_exists
    THEN <<"Icon not found">> ELSE <<>>

\* the try block: the length test appends, the loop over the parts goes on
\* and int() of a part may raise into the bare except, which appends again
VersionErrors(c) ==
    (IF Len(c.app_version) < 2
     THEN <<"Version must be in format X.Y or X.Y.Z">> ELSE <<>>)
    \o (IF \E k \in 1..Len(c.app_version) : NotAnInt(c.app_version[k])
        THEN <<"Invalid version format">> ELSE <<>>)

\* BuildConfig.validate: the list errors
ValidateErrors(c) ==
    NameErrors(c) \o SourceErrors(c) \o IconErrors(c) \o VersionErrors(c)

InitValidate ==
    /\ val_config \in ValidateInputs
    /\ val_errors = <<>>
    /\ val_called = FALSE

\* one call of validate
CallValidate ==
    /\ ~val_called
    /\ val_errors' = ValidateErrors(val_config)
    /\ val_called' = TRUE
    /\ UNCHANGED val_config
    /\ UNCHANGED <<xvars, cvars, mvars, lvars, hvars, pvars, fvars, wvars, rvars>>

(***************************************************************************)
(* build command of cli/main.py and PreflightChecker (core/preflight.py)   *)
(***************************************************************************)
\* the command lines and environments of a build: the flags, whether the
\* source folder exists and holds index.html, what psutil reports about
\* memory ("unknown": psutil is not installed), the answer to the prompt
BuildArgs ==
    [onefile : BOOLEAN, debug : BOOLEAN, upx : BOOLEAN, skip_preflight : BOOLEAN,
     source_found : BOOLEAN, has_index : BOOLEAN,
     memory : {"ok", "low", "unknown"}, confirm : BOOLEAN]

\* the report of --skip-preflight: {}
EmptyReport == [settings |-> {}, errors |-> <<>>, warnings |-> <<>>]

\* run_all_checks for a folder source: the recommended_* entries start from
\* their defaults, _check_memory lowers recommended_onefile
RunAllChecks(a) ==
    [settings |-> {<<"recommended_onefile", a.memory # "low">>,
                   <<"recommended_console", FALSE>>,
                   <<"recommended_debug", FALSE>>,
                   <<"recommended_upx", TRUE>>},
     errors |-> IF a.source_found THEN <<>> ELSE <<"Source folder not found">>,
     warnings |-> (IF a.memory = "low" THEN <<"Low memory detected">>
                   ELSE IF a.memory = "unknown"
                        THEN <<"Could not check available memory">> ELSE <<>>)
                  \o (IF a.source_found /\ ~a.has_index
                      THEN <<"No 'index.html' file found">> ELSE <<>>)]

\* apply_recommended_settings: a key is applied when settings.get(key) is
\* not None
ApplyRecommendedSettings(cfg, settings) ==
    [cfg EXCEPT !.onefile = ModValue(settings, "recommended_onefile", @),
                !.console = ModValue(settings, "recommended_console", @),
                !.debug = ModValue(settings, "recommended_debug", @),
                !.upx_compress = ModValue(settings, "recommended_upx", @)]

InitPreflight ==
    /\ pf_args \in BuildArgs
    /\ pf_pc = "start"
    /\ pf_report = EmptyReport
    /\ pf_config = DefaultBuildConfig

\* lines 43-61: the preflight checks, typer.Exit on errors or a declined prompt
RunPreflight ==
    /\ pf_pc = "start"
    /\ IF pf_args.skip_preflight
       THEN /\ pf_report' = EmptyReport
            /\ pf_pc' = "configure"
       ELSE LET report == RunAllChecks(pf_args) IN
            /\ pf_report' = report
            /\ pf_pc' = IF report.errors # <<>> THEN "exit"
                        ELSE IF report.warnings # <<>> /\ ~pf_args.confirm THEN "exit"
                        ELSE "configure"
    /\ UNCHANGED <<pf_args, pf_config>>
    /\ UNCHANGED <<xvars, cvars, mvars, lvars, hvars, pvars, bvars, wvars, rvars>>

\* lines 64-76: the configuration is created from the command line
CreateConfiguration ==
    /\ pf_pc = "configure"
    /\ pf_config' = [DefaultBuildConfig EXCEPT !.onefile = pf_args.onefile,
                                               !.debug = pf_args.debug,
                                               !.upx_compress = pf_args.upx]
    /\ pf_pc' = "apply"
    /\ UNCHANGED <<pf_args, pf_report>>
    /\ UNCHANGED <<xvars, cvars, mvars, lvars, hvars, pvars, bvars, wvars, rvars>>

\* line 79: apply_recommended_settings(config, report)
ApplyRecommended ==
    /\ pf_pc = "apply"
    /\ pf_config' = ApplyRecommendedSettings(pf_config, pf_report.settings)
    /\ pf_pc' = "export"
    /\ UNCHANGED <<pf_args, pf_report>>
    /\ UNCHANGED <<xvars, cvars, mvars, lvars, hvars, pvars, bvars, wvars, rvars>>

(***************************************************************************)
(* BuildProgressDialog._build_worker of html2exe_pro_premium.py            *)
(***************************************************************************)
\* progress_callback(message) takes one argument; the exporter calls
\* self.debugger.log(text, level) with two
CallbackParameters == 1
LogArguments == 2

\* export_with_auto_debug with debugger.log replaced by progress_callback:
\* the exception its first statement raises ("" for none)
ExportRaises == IF LogArguments # CallbackParameters THEN "TypeError" ELSE ""

\* how a call that runs to its end can end: a success result, a failure
\* result, an exception
Outcomes == {"success", "failure", "exception"}

NoRequest == [n |-> 0, use_bullet_proof |-> FALSE, outcome |-> "success", first |-> 1]

InitWorker ==
    /\ gw_request = NoRequest
    /\ gw_pc = "idle"
    /\ gw_events = <<>>

\* self.dialog.after(100, ...) for a result
CompletionHandler(outcome) ==
    IF outcome = "success" THEN <<"after", "_build_success">>
    ELSE <<"after", "_build_error">>

\* a build request: the dialog starts the worker thread
StartWorker ==
    /\ gw_pc \in {"idle", "done"}
    /\ gw_request.n < MaxRequests
    /\ \E bp \in BOOLEAN, o \in Outcomes :
           gw_request' = [n |-> gw_request.n + 1, use_bullet_proof |-> bp,
                          outcome |-> o, first |-> Len(gw_events) + 1]
    /\ gw_pc' = "branch"
    /\ UNCHANGED gw_events
    /\ UNCHANGED <<xvars, cvars, mvars, lvars, hvars, pvars, bvars, fvars, rvars>>

\* lines 2396-2423: the bullet-proof branch; the else branch only logs
BulletProofBranch ==
    /\ gw_pc = "branch"
    /\ IF ~gw_request.use_bullet_proof
       THEN /\ gw_pc' = "engine"
            /\ UNCHANGED gw_events
       ELSE IF ExportRaises # ""
       THEN /\ gw_events' = Append(gw_events, <<"export_with_auto_debug", ExportRaises>>)
            /\ gw_pc' = "except"
       ELSE IF gw_request.outcome = "exception"
       THEN /\ gw_events' = Append(gw_events, <<"export_with_auto_debug", "exception">>)
            /\ gw_pc' = "except"
       ELSE /\ gw_events' = gw_events \o
                               << <<"export_with_auto_debug", gw_request.outcome>>,
                                  CompletionHandler(gw_request.outcome) >>
            /\ gw_pc' = "engine"
    /\ UNCHANGED gw_request
    /\ UNCHANGED <<xvars, cvars, mvars, lvars, hvars, pvars, bvars, fvars, rvars>>

\* lines 2427-2449, at the indentation of the try block: the standard engine
EngineBuild ==
    /\ gw_pc = "engine"
    /\ IF gw_request.outcome = "exception"
       THEN /\ gw_events' = Append(gw_events, <<"engine.build", "exception">>)
            /\ gw_pc' = "except"
       ELSE /\ gw_events' = gw_events \o
                               << <<"engine.build", gw_request.outcome>>,
                                  CompletionHandler(gw_request.outcome) >>
            /\ gw_pc' = "done"
    /\ UNCHANGED gw_request
    /\ UNCHANGED <<xvars, cvars, mvars, lvars, hvars, pvars, bvars, fvars, rvars>>

\* lines 2451-2454: except Exception
WorkerExcept ==
    /\ gw_pc = "except"
    /\ gw_events' = Append(gw_events, <<"after", "_build_error">>)
    /\ gw_pc' = "done"
    /\ UNCHANGED gw_request
    /\ UNCHANGED <<xvars, cvars, mvars, lvars, hvars, pvars, bvars, fvars, rvars>>

(***************************************************************************)
(* LiveReloadHandler of core/webview_manager.py: the watchdog observer     *)
(* thread delivering events, and the Timer threads it starts               *)
(***************************************************************************)
ReloadExtensions == {".html", ".css", ".js", ".json", ".xml"}

\* suffixes of the paths modified
EventSuffixes == {".html", ".HTML", ".css", ".txt"}

_should_reload(suffix) == Lower(suffix) \in ReloadExtensions

\* on_modified starts a timer for every qualifying event
StartsTimerAlways(pending) == TRUE

\* line 31: if not self.pending_reload
StartsTimer(pending) == ~pending

InitReload ==
    /\ pending_reload = FALSE
    /\ timers_waiting = 0
    /\ reloads_running = 0
    /\ timers_started = 0
    /\ reloads = 0
    /\ file_version = 0
    /\ page_version = 0

\* on_modified(event), on the observer thread; an event for a directory or
\* for a path with another suffix changes nothing
OnModified ==
    /\ file_version < MaxMods
    /\ \E is_directory \in BOOLEAN, suffix \in EventSuffixes :
           /\ ~is_directory
           /\ _should_reload(suffix)
           /\ file_version' = file_version + 1
           /\ IF StartsTimer(pending_reload)
              THEN /\ pending_reload' = TRUE
                   /\ timers_waiting' = timers_waiting + 1
                   /\ timers_started' = timers_started + 1
              ELSE UNCHANGED <<pending_reload, timers_waiting, timers_started>>
    /\ UNCHANGED <<reloads_running, reloads, page_version>>
    /\ UNCHANGED <<xvars, cvars, mvars, lvars, hvars, pvars, bvars, fvars, wvars>>

\* the delay of a Timer elapses: _reload runs evaluate_js, which starts the
\* page reload with the files as they are now
TimerFires ==
    /\ timers_waiting > 0
    /\ timers_waiting' = timers_waiting - 1
    /\ reloads_running' = reloads_running + 1
    /\ reloads' = reloads + 1
    /\ page_version' = file_version
    /\ UNCHANGED <<pending_reload, timers_started, file_version>>
    /\ UNCHANGED <<xvars, cvars, mvars, lvars, hvars, pvars, bvars, fvars, wvars>>

\* finally: self.pending_reload = False, and the Timer thread ends
ReloadFinally ==
    /\ reloads_running > 0
    /\ reloads_running' = reloads_running - 1
    /\ pending_reload' = FALSE
    /\ UNCHANGED <<timers_waiting, timers_started, reloads, file_version, page_version>>
    /\ UNCHANGED <<xvars, cvars, mvars, lvars, hvars, pvars, bvars, fvars, wvars>>

(***************************************************************************)
(* Specifications                                                          *)
(***************************************************************************)
\* a run of the exporter; the CI engine is at rest in one environment
IdleCI ==
    /\ InitCI
    /\ env = [valid |-> TRUE, has_pyinstaller |-> TRUE, simulate |-> FALSE,
              entry_exists |-> TRUE, sign_executable |-> FALSE,
              create_installer |-> FALSE]

\* a build of the CI engine; the exporter is at rest
IdleExport ==
    /\ InitExport
    /\ failing_checks = {}
    /\ caller_config = DefaultBuildConfig

\* no command has been built, for one input
IdleCommand ==
    /\ InitCommand
    /\ cmd_input = [build |-> DefaultBuildConfig, name |-> "app", company |-> "",
                    source_type |-> "folder", platform |-> "win32",
                    extra_hidden_imports |-> <<>>]
    /\ cmd_files = {}

\* the legacy command line has not been started, for one command line
IdleCli ==
    /\ InitCli
    /\ cli_args = [input |-> [kind |-> "file", suffix |-> ".html", has_index |-> FALSE],
                   check |-> FALSE, output_exists |-> FALSE]
    /\ cli_backend = "built"

\* a viewer nothing has been called on
IdleViewer == InitViewer

\* no validation has been started, in one environment
IdlePreExport ==
    /\ InitPreExport
    /\ pev_env = [failing |-> {}, output_dir_exists |-> TRUE, permissions |-> "ok"]

\* validate has not been called, on the default configuration
IdleValidate ==
    /\ InitValidate
    /\ val_config = [app_name |-> "MyApp", source_path |-> "", source_exists |-> FALSE,
                     icon_path |-> "", icon_exists |-> FALSE,
                     app_version |-> [k \in 1..3 |-> "1"], simulate_mode |-> FALSE]

\* the build command has not been run
IdlePreflight ==
    /\ InitPreflight
    /\ pf_args = [onefile |-> TRUE, debug |-> FALSE, upx |-> FALSE,
                  skip_preflight |-> FALSE, source_found |-> TRUE, has_index |-> TRUE,
                  memory |-> "ok", confirm |-> TRUE]

\* no build request
IdleWorker == InitWorker

\* no modification yet
IdleReload == InitReload

IdleOthers ==
    /\ IdlePreExport
    /\ IdleValidate
    /\ IdlePreflight
    /\ IdleWorker
    /\ IdleReload

Init ==
    /\ InitExport
    /\ IdleCI
    /\ IdleCommand
    /\ IdleCli
    /\ IdleViewer
    /\ IdleOthers

InitForCI ==
    /\ IdleExport
    /\ InitCI
    /\ IdleCommand
    /\ IdleCli
    /\ IdleViewer
    /\ IdleOthers

InitForCommand ==
    /\ IdleExport
    /\ IdleCI
    /\ InitCommand
    /\ IdleCli
    /\ IdleViewer
    /\ IdleOthers

InitForCli ==
    /\ IdleExport
    /\ IdleCI
    /\ IdleCommand
    /\ InitCli
    /\ IdleViewer
    /\ IdleOthers

InitForViewer ==
    /\ IdleExport
    /\ IdleCI
    /\ IdleCommand
    /\ IdleCli
    /\ InitViewer
    /\ IdleOthers

NextCli ==
    \/ Main
    \/ ConvertValidate
    \/ PrepareAssets
    \/ RunPyinstaller

InitForPreExport ==
    /\ IdleExport
    /\ IdleCI
    /\ IdleCommand
    /\ IdleCli
    /\ IdleViewer
    /\ InitPreExport
    /\ IdleValidate
    /\ IdlePreflight
    /\ IdleWorker
    /\ IdleReload

InitForValidate ==
    /\ IdleExport
    /\ IdleCI
    /\ IdleCommand
    /\ IdleCli
    /\ IdleViewer
    /\ IdlePreExport
    /\ InitValidate
    /\ IdlePreflight
    /\ IdleWorker
    /\ IdleReload

InitForPreflight ==
    /\ IdleExport
    /\ IdleCI
    /\ IdleCommand
    /\ IdleCli
    /\ IdleViewer
    /\ IdlePreExport
    /\ IdleValidate
    /\ InitPreflight
    /\ IdleWorker
    /\ IdleReload

NextPreflight ==
    \/ RunPreflight
    \/ CreateConfiguration
    \/ ApplyRecommended

InitForWorker ==
    /\ IdleExport
    /\ IdleCI
    /\ IdleCommand
    /\ IdleCli
    /\ IdleViewer
    /\ IdlePreExport
    /\ IdleValidate
    /\ IdlePreflight
    /\ InitWorker
    /\ IdleReload

NextWorker ==
    \/ StartWorker
    \/ BulletProofBranch
    \/ EngineBuild
    \/ WorkerExcept

InitForReload ==
    /\ IdleExport
    /\ IdleCI
    /\ IdleCommand
    /\ IdleCli
    /\ IdleViewer
    /\ IdlePreExport
    /\ IdleValidate
    /\ IdlePreflight
    /\ IdleWorker
    /\ InitReload

NextReload ==
    \/ OnModified
    \/ TimerFires
    \/ ReloadFinally

NextValidate ==
    \/ CallValidate

NextPreExport ==
    \/ RunCheck
    \/ CheckPermissions

NextViewer ==
    \/ ExtractAssets
    \/ ViewerCleanup
    \/ RemovedOutside

NextCommand ==
    \/ BuildCommand

Next ==
    \/ StartExport
    \/ Validate
    \/ TryStrategy
    \/ GenerateFailureReport

Spec == Init /\ [][Next]_vars

\* export_with_auto_debug runs on one thread that is never suspended for good
\* (every attempt ends: the backend runs under a timeout)
SpecFair == Init /\ [][Next]_vars /\ WF_vars(Next)

SpecCI == InitForCI /\ [][NextCI]_vars

SpecCommand == InitForCommand /\ [][NextCommand]_vars

SpecCli == InitForCli /\ [][NextCli]_vars

SpecViewer == InitForViewer /\ [][NextViewer]_vars

SpecPreExport == InitForPreExport /\ [][NextPreExport]_vars

SpecValidate == InitForValidate /\ [][NextValidate]_vars

SpecPreflight == InitForPreflight /\ [][NextPreflight]_vars

SpecWorker == InitForWorker /\ [][NextWorker]_vars

\* a started Timer fires after its delay and _reload runs to its end
SpecReload ==
    /\ InitForReload
    /\ [][NextReload]_vars
    /\ WF_vars(TimerFires)
    /\ WF_vars(ReloadFinally)

(***************************************************************************)
(* Properties of export_with_auto_debug (specification Spec)               *)
(***************************************************************************)
AttemptIndexes == 1..Len(attempts)

SomeAttemptSucceeded == \E k \in AttemptIndexes : attempts[k].success

\* C1. Stop-on-success: when the k-th attempt is the first to succeed,
\* exactly k attempts were performed; the run is over, the cursor still
\* points at the succeeded strategy and no later strategy is attempted.
C1_StopOnSuccess ==
    \A k \in AttemptIndexes :
        attempts[k].success =>
            /\ Len(attempts) = k
            /\ backend_calls <= k
            /\ pc = "done"
            /\ i = k - 1
            /\ attempts[k].strategy = strategies[k].name

C1_Witness ==
    /\ Len(attempts) = 3
    /\ attempts[3].success
    /\ ~attempts[1].success /\ ~attempts[2].success
    /\ Len(strategies) > 3

\* C2. Exhaustion: when all N queued strategies failed and no failure
\* output matched a diagnosis rule (the queue is still the baseline), the
\* run made N attempts and returns success=false reporting N attempts.
C2_Exhaustion ==
    (/\ pc = "done"
     /\ strategies = GetExportStrategies
     /\ ~SomeAttemptSucceeded)
    => /\ Len(attempts) = Len(strategies)
       /\ ~result.success
       /\ result.strategies_tried = Len(strategies)

\* C3. Insert-after-current: a step that adds a strategy to the queue while
\* the cursor is at index i puts the diagnosed strategy at index i+1, keeps
\* every other entry in order, and leaves the run in the loop with the
\* cursor on the new strategy (also when i was the last index); every
\* attempt is made with the strategy under the cursor, and a failed attempt
\* naming a module no queue entry carries yet does add a strategy.
C3_InsertAfterCurrent ==
    [][ /\ (Len(strategies') = Len(strategies) + 1 /\ pc = "loop") =>
            /\ strategies'[i + 2] = NewStrategy(MissingModule(last'.result.error))
            /\ SubSeq(strategies', 1, i + 1) = SubSeq(strategies, 1, i + 1)
            /\ SubSeq(strategies', i + 3, Len(strategies'))
                   = SubSeq(strategies, i + 2, Len(strategies))
            /\ i' = i + 1
            /\ i' < Len(strategies')
            /\ pc' = "loop"
        /\ (Len(attempts') = Len(attempts) + 1) =>
            /\ attempts'[Len(attempts')].strategy = strategies[i + 1].name
            /\ (/\ ~last'.result.success
                /\ MissingModule(last'.result.error) # ""
                /\ \A k \in 1..Len(strategies) :
                       strategies[k].extra_hidden_imports
                           # <<MissingModule(last'.result.error)>>)
               => Len(strategies') = Len(strategies) + 1
      ]_vars

\* an injection made at the last index: the injected strategy closes the
\* queue, is under the cursor and the run goes on
C3_Witness ==
    /\ pc = "loop"
    /\ Len(strategies) > Len(GetExportStrategies)
    /\ i = Len(strategies) - 1
    /\ Len(attempts) = i
    /\ strategies[Len(strategies)].extra_hidden_imports # <<>>

\* C4. No duplicate strategies: no two queue entries are equal, and once a
\* failed attempt named a missing module exactly one queue entry carries
\* that module as its extra hidden import, however often it was named.
C4_NoDuplicateStrategies ==
    /\ \A a, b \in 1..Len(strategies) : a # b => strategies[a] # strategies[b]
    /\ (attempts # <<>> /\ MissingModule(last.result.error) # "") =>
          Cardinality({ k \in 1..Len(strategies) :
              strategies[k].extra_hidden_imports
                  = <<MissingModule(last.result.error)>> }) = 1

\* the same diagnosis arose again: the module's strategy is already behind
\* the cursor when a failure names the module
C4_Witness ==
    /\ pc = "loop"
    /\ MissingModule(last.result.error) = "foo"
    /\ \E k \in 1..i : k < i /\ strategies[k].extra_hidden_imports = <<"foo">>

\* C5. Validation gate: when a validation check fails the run ends in
\* failure from validation, no strategy is queued or applied, no attempt is
\* recorded and the backend is never invoked.
C5_ValidationGate ==
    failing_checks # {} =>
        /\ pc \in {"idle", "validating", "done"}
        /\ attempts = <<>>
        /\ backend_calls = 0
        /\ strategies = <<>>
        /\ config = caller_config /\ aliased
        /\ pc = "done" =>
              /\ result.returned
              /\ ~result.success
              /\ result.error = PreExportValidation(failing_checks).error

C5_Witness ==
    /\ pc = "done"
    /\ "source_validity" \in failing_checks
    /\ result.error.prefix = "source_validity"
    /\ attempts = <<>>

\* C9. The returned result has success=true exactly when the last attempt
\* performed succeeded; a failure result is returned only when no attempt
\* succeeded.
C9_SuccessIffLastSucceeded ==
    result.returned =>
        /\ result.success <=> (attempts # <<>> /\ attempts[Len(attempts)].success)
        /\ ~result.success => ~SomeAttemptSucceeded
        /\ result.success => result.strategy = attempts[Len(attempts)].strategy

C9_Witness ==
    /\ result.returned
    /\ result.success
    /\ Len(attempts) = 2
    /\ ~attempts[1].success

ArtifactMissingError == "Executable was not created successfully"

\* C10. An attempt succeeds only if the backend ran, did not time out,
\* exited with code 0 and left the artifact on disk; exit code 0 without
\* the artifact is a failure with an error of its own; a non-zero exit and
\* a timeout are failures with other errors.
C10_SuccessNeedsArtifact ==
    attempts # <<>> =>
        LET b == last.behaviour
            r == last.result
        IN /\ attempts[Len(attempts)].success = r.success
           /\ r.success =>
                 b.config_ok /\ ~b.timeout /\ b.returncode = 0 /\ b.artifact
           /\ (b.config_ok /\ ~b.timeout /\ b.returncode = 0 /\ ~b.artifact) =>
                 ~r.success /\ r.error.prefix = ArtifactMissingError
           /\ (b.config_ok /\ (b.timeout \/ b.returncode # 0)) =>
                 ~r.success /\ r.error.prefix # ArtifactMissingError

C10_Witness ==
    /\ attempts # <<>>
    /\ last.behaviour.config_ok /\ ~last.behaviour.timeout
    /\ last.behaviour.returncode = 0 /\ ~last.behaviour.artifact
    /\ ~attempts[Len(attempts)].success
    /\ pc = "loop"

(***************************************************************************)
(* Properties of BuildEngine.build with cancel (specification SpecCI)      *)
(***************************************************************************)
\* C6. Cancelling during Building: when cancel() set the event while the
\* status was BUILDING, build() ends with status CANCELLED and returns a
\* non-success result.
C6_CancelDuringBuilding ==
    (bpc = "returned" /\ cancel_status = "building") =>
        /\ status = "cancelled"
        /\ build_result[1] = FALSE

\* C7. No orphaned backend: when build() has returned after a cancellation
\* made during Building, the backend child is no longer running.
C7_NoOrphanedBackend ==
    (bpc = "returned" /\ cancel_status = "building") => proc # "running"

\* C8. A cancellation signalled in a non-terminal status is honoured: the
\* run does not end Completed once cancel() set the event before the last
\* status transition.
C8_CancelledFromAnyState ==
    (bpc = "returned" /\ cancel_status \in NonTerminal) => status # "completed"

\* the validation gate of the CI engine: with validation errors the run ends
\* Failed and the backend is never spawned (companion of C5 under SpecCI)
ValidationGateCI ==
    ~env.valid =>
        /\ proc = "none" /\ process = "none"
        /\ bpc = "returned" => (status = "failed" /\ build_result[1] = FALSE)

\* the build step of the CI engine passes only on exit code 0 with the
\* output file present (companion of C10 under SpecCI)
BuildStepClassificationCI ==
    bpc \in {"check_built", "built", "sign", "package", "test"} =>
        returncode = 0 /\ artifact

(***************************************************************************)
(* Failure handling, validation and configuration of the exporter          *)
(* (specification Spec)                                                    *)
(***************************************************************************)
AllFailedError == "All export strategies failed"

\* C11. A failed attempt (configuration error, timeout, non-zero exit,
\* missing artifact) never ends the run by itself: the step that records it
\* returns nothing and only moves the cursor to the next queue entry; a
\* failure result that follows attempts is the aggregated "all strategies
\* failed" result and is returned only once every queued strategy has been
\* attempted.
C11_FailuresAdvanceQueue ==
    [][ /\ (/\ Len(attempts') = Len(attempts) + 1
            /\ ~attempts'[Len(attempts')].success) =>
               /\ pc' = "loop"
               /\ i' = i + 1
               /\ result' = result
               /\ ~result'.returned
        /\ (result'.returned /\ ~result'.success /\ attempts' # <<>>) =>
               /\ result'.error.prefix = AllFailedError
               /\ i' = Len(strategies')
               /\ Len(attempts') = Len(strategies')
               /\ \A k \in 1..Len(attempts') : ~attempts'[k].success
      ]_vars

\* the aggregated failure after a queue of six, the last attempt timed out
C11_Witness ==
    /\ result.returned
    /\ ~result.success
    /\ result.error.prefix = AllFailedError
    /\ Len(attempts) = Len(GetExportStrategies) + 1
    /\ last.behaviour.timeout

\* the failing checks a returned validation result names: the result dict of
\* a check carries one "error" string
ReportedChecks(r) == {r.error.prefix} \cap CheckNames

\* C12. The validation pipeline does not short-circuit: a run that ends in
\* validation reports every failing check.
C12_ValidationReportsAll ==
    (pc = "done" /\ failing_checks # {}) =>
        ReportedChecks(result) = failing_checks

\* C13. The caller's configuration is never touched by a run: no step
\* changes a field of the object handed to the exporter (strategy overrides
\* and the generated icon path go to per-strategy copies), so it has the
\* same field values when the run returns as before.
C13_CallerConfigUntouched ==
    [][caller_config' = caller_config]_vars

(***************************************************************************)
(* Properties of _build_pyinstaller_command (specification SpecCommand)    *)
(***************************************************************************)
HiddenImportTokens(cmd) == SelectSeq(cmd, LAMBDA tok : tok[1] = "--hidden-import=")

\* C14. For a fixed configuration, hint list and environment every call of
\* the command builder returns the same token list in the same order; the
\* list has one hidden-import token per built-in import and then one per
\* hinted dependency, in the order of the hints, and the entry script is
\* its last token and appears nowhere else.
C14_CommandDeterministic ==
    /\ \A a, b \in 1..Len(cmd_calls) : cmd_calls[a] = cmd_calls[b]
    /\ \A c \in 1..Len(cmd_calls) :
          LET cmd == cmd_calls[c]
              hinted == hidden_imports \o cmd_input.extra_hidden_imports
          IN /\ cmd[Len(cmd)] = <<MainScriptPath>>
             /\ \A k \in 1..(Len(cmd) - 1) : cmd[k] # <<MainScriptPath>>
             /\ HiddenImportTokens(cmd)
                   = [k \in 1..Len(hinted) |-> <<"--hidden-import=", hinted[k]>>]

\* two calls with two hints, the first of which wrote the version file
C14_Witness ==
    /\ Len(cmd_calls) = 2
    /\ Len(cmd_input.extra_hidden_imports) = 2
    /\ VersionFile \in cmd_files
    /\ "user.ico" \in cmd_files /\ cmd_input.build.icon_path = "user.ico"

(***************************************************************************)
(* Builds started one after the other from the GUI (specification SpecCI)  *)
(***************************************************************************)
\* backend child processes that are running
RunningChildren == orphans + (IF proc = "running" THEN 1 ELSE 0)

\* C15. At most one attempt is in flight: whatever the sequence of start and
\* cancel requests, never two backend child processes run at the same time.
C15_OneAttemptInFlight == RunningChildren <= 1

(***************************************************************************)
(* Files written by a run of the exporter (specification Spec)             *)
(***************************************************************************)
\* C16. A report is persisted whenever the run ends: once the result is
\* returned (an attempt succeeded, validation failed or every strategy was
\* exhausted) exactly one report file has been written for the run.
C16_OneReportPerRun ==
    result.returned => Len(reports) = 1

\* C17. Working directories are isolated per attempt: when an attempt
\* starts, the build directory holds no file written by an earlier attempt.
C17_FreshBuildDir ==
    [][(Len(attempts') = Len(attempts) + 1) => build_dir = {}]_vars

\* C18. Working-directory lifetime: when build() has returned, with any
\* terminal status, the working directory exists only if the engine runs in
\* simulate mode.
C18_WorkDirRemoved ==
    bpc = "returned" => (temp_dir => env.simulate)

(***************************************************************************)
(* Order of the attempts (specification Spec)                              *)
(***************************************************************************)
\* names of the strategies without extra hidden imports, in queue order
BaselineNames(list) ==
    LET base == SelectSeq(list, LAMBDA s : s.extra_hidden_imports = <<>>)
    IN [k \in 1..Len(base) |-> base[k].name]

\* C19. Strategies are tried in queue order: the k-th attempt runs the k-th
\* queue entry, so the first attempt is the standard build, which carries no
\* overrides and no hints; the baseline strategies keep the order standard,
\* directory mode, no compression, debug/console, minimal whatever is
\* injected; no queue entry is attempted twice.
C19_QueueOrder ==
    /\ Len(attempts) <= Len(strategies)
    /\ pc = "loop" => Len(attempts) = i
    /\ \A k \in AttemptIndexes : attempts[k].strategy = strategies[k].name
    /\ \A a, b \in AttemptIndexes :
          a # b => attempts[a].strategy # attempts[b].strategy
    /\ attempts # <<>> =>
          /\ attempts[1].strategy = <<"Standard Export">>
          /\ strategies[1].modifications = {}
          /\ strategies[1].extra_hidden_imports = <<>>
    /\ strategies # <<>> =>
          BaselineNames(strategies)
              = << <<"Standard Export">>, <<"Directory Mode">>,
                   <<"No UPX Compression">>, <<"Debug Mode">>,
                   <<"Minimal Configuration">> >>

\* all seven entries of a queue with two injected strategies were attempted
C19_Witness ==
    /\ pc = "done"
    /\ Len(strategies) = Len(GetExportStrategies) + 2
    /\ Len(attempts) = Len(strategies)
    /\ strategies[2].extra_hidden_imports # <<>>
    /\ strategies[5].extra_hidden_imports # <<>>

(***************************************************************************)
(* Diagnosis of a failed attempt (specification Spec)                      *)
(***************************************************************************)
\* the solution rules in the order they are tried, with their phrases
SolutionRules ==
    << [name |-> "permission", phrases |-> {"permission denied", "access denied"}],
       [name |-> "dependencies", phrases |-> {"module not found", "import error"}],
       [name |-> "pyinstaller", phrases |-> {"pyinstaller", "build failed"}],
       [name |-> "memory", phrases |-> {"memory", "out of memory"}],
       [name |-> "disk", phrases |-> {"disk space", "no space"}] >>

\* indexes of the solution rules a phrase of the message matches
MatchingRules(error) ==
    { k \in 1..Len(SolutionRules) :
        SolutionRules[k].phrases \cap MessagePhrases(error) # {} }

\* the rules that left a trace in the diagnosis of the latest attempt
FiredRules ==
    LET d == DiagnoseExportFailure(last.result.error)
    IN (IF d.missing_module # "" THEN {"missing_module"} ELSE {}) \cup d.solutions

LastAttemptFailed == attempts # <<>> /\ ~last.result.success

\* C20 as stated. First-match-wins over all diagnosis rules: at most one
\* rule fires for a failed attempt, also when its output matches both the
\* missing-module pattern and another pattern such as permission denied.
C20_FirstMatchWins ==
    LastAttemptFailed => Cardinality(FiredRules) <= 1

\* C20, amended. The missing-module rule is evaluated on its own: it fires
\* exactly when the output of a non-zero exit names a module.  Of the
\* solution rules at most one fires, the first in rule order with a phrase
\* in the message, and none when no phrase occurs; it fires whether or not
\* the missing-module rule fired.
C20_FirstMatchAmongSolutions ==
    LastAttemptFailed =>
        LET error == last.result.error
            d == DiagnoseExportFailure(error)
        IN /\ Cardinality(d.solutions) <= 1
           /\ MatchingRules(error) = {} => d.solutions = {}
           /\ MatchingRules(error) # {} =>
                 \E k \in MatchingRules(error) :
                     /\ \A h \in MatchingRules(error) : k <= h
                     /\ d.solutions = {SolutionRules[k].name}
           /\ d.missing_module # "" <=>
                 (last.behaviour.returncode # 0 /\ last.behaviour.out.module # "")

\* an output with a missing-module line, "permission denied" and "memory":
\* the hint and the permission solutions, not the later rules
C20_Witness ==
    /\ LastAttemptFailed
    /\ last.result.error.out.module = "Foo"
    /\ last.result.error.out.pats = {"permission denied", "memory"}
    /\ FiredRules = {"missing_module", "permission"}
    /\ Cardinality(MatchingRules(last.result.error)) = 3

\* C21. A failed attempt whose output matches a memory-exhaustion pattern
\* makes the diagnosis propose a strategy with directory mode and disabled
\* compression, which is queued right after the current index.
C21_MemoryStrategyQueued ==
    [][ (/\ Len(attempts') = Len(attempts) + 1
         /\ ~last'.result.success
         /\ last'.behaviour.returncode # 0
         /\ "memory" \in last'.behaviour.out.pats) =>
            /\ Len(strategies') = Len(strategies) + 1
            /\ {<<"onefile", FALSE>>, <<"upx_compress", FALSE>>}
                   \subseteq strategies'[i + 2].modifications
      ]_vars

(***************************************************************************)
(* Cancellation and simulate mode of the CI engine (specification SpecCI)  *)
(***************************************************************************)
\* C22. Cancellation is terminal: once cancel() has set the event of a
\* running build, no backend child is started for that run any more.
C22_NoBackendAfterCancel ==
    [][cancel_event => (proc' = "running" => proc = "running")]_vars

(***************************************************************************)
(* Callers of the build: cli/main.py build and gui/main.py _build_worker   *)
(* (specification Spec is the run the CLI starts)                          *)
(***************************************************************************)
\* BuildProgressDialog._build_worker: one BuildEngine.build() on the
\* configuration as given; its result, or the exception it raised, is the
\* outcome.  first_success: did that one build succeed.
GuiBuildWorker(first_success) ==
    [attempts |-> << [strategy |-> <<"Standard Export">>, success |-> first_success] >>,
     success |-> first_success]

\* C23. CLI and GUI callers have the same semantics: a run started from the
\* CLI that reached the backend made the attempts, and ended with the
\* outcome, of the GUI's build worker on the same configuration and the same
\* backend behaviour.
C23_SameAttemptsCliGui ==
    (result.returned /\ attempts # <<>>) =>
        LET gui == GuiBuildWorker(attempts[1].success)
        IN /\ attempts = gui.attempts
           /\ result.success = gui.success

\* C24. On success the report names the strategy that succeeded and shows
\* the attempts made: the strategy field is the name of the strategy of the
\* last attempt, and the attempt records kept for the report
\* (export_history) are as many as the attempts performed; two when the
\* standard build failed naming a missing module and the injected strategy
\* then succeeded.
C24_ReportNamesStrategy ==
    (result.returned /\ result.success) =>
        /\ result.strategy = attempts[Len(attempts)].strategy
        /\ Len(export_history) = Len(attempts)

\* C25. Simulate mode: with simulate set, build() never spawns the backend
\* and never enters BUILDING, SIGNING, PACKAGING or TESTING; when validation
\* passes and nobody cancels it ends COMPLETED with a success result, and a
\* completed run leaves the working directory in place.
C25_SimulateSkipsBackend ==
    env.simulate =>
        /\ proc = "none" /\ process = "none"
        /\ status \notin {"building", "signing", "packaging", "testing"}
        /\ bpc \notin {"run_pyinstaller", "read_output", "check_built", "built",
                       "sign", "package", "test"}
        /\ bpc = "returned" =>
              /\ (env.valid /\ cancel_status = "") =>
                    status = "completed" /\ build_result[1]
              /\ status = "completed" => temp_dir

\* a completed simulate run without PyInstaller and without the entry file
C25_Witness ==
    /\ env.simulate
    /\ ~env.has_pyinstaller /\ ~env.entry_exists
    /\ bpc = "returned"
    /\ status = "completed"
    /\ progress = 100
    /\ temp_dir

(***************************************************************************)
(* Configuration and queue of a whole run (specification Spec)             *)
(***************************************************************************)
ConfigFields == {"onefile", "console", "debug", "upx_compress", "strip_debug",
                 "icon_path"}

\* C29: overrides do not leak between attempts. While the run goes on,
\* self.config stays the base configuration the run started with (a failed
\* attempt leaves it as it found it), and the configuration an attempt hands
\* to the engine is that base with exactly the attempt's strategy's overrides:
\* an overridden field has the override's value, every other field the base's.
C29_OverridesDoNotLeak ==
    [][/\ pc' # "done" => config' = config
       /\ attempts' # attempts =>
             \A f \in ConfigFields :
                 LET mods == strategies[i + 1].modifications IN
                 IF \E m \in mods : m[1] = f
                 THEN <<f, last'.config[f]>> \in mods
                 ELSE last'.config[f] = config[f]]_vars

\* an attempt without the directory-mode override runs with onefile set,
\* after the Directory Mode attempt (onefile = False) has failed
C29_Witness ==
    /\ Len(attempts) = 3
    /\ attempts[2].strategy = <<"Directory Mode">>
    /\ ~attempts[2].success
    /\ attempts[3].strategy = <<"No UPX Compression">>
    /\ last.config.onefile
    /\ ~last.config.upx_compress
    /\ pc = "loop" /\ config.upx_compress

\* the distinct modules failure outputs can name; the diagnosis lower-cases
\* the output, so names differing by case only are one module
DistinctModules == Cardinality({ Lower(m) : m \in ModuleNames })

\* C30: termination with bounded queue growth. Every run of
\* export_with_auto_debug ends; with at most M distinct missing modules in
\* the failure outputs the queue never holds more than 5+M strategies and no
\* run makes more than 5+M attempts, also when failures name the same module
\* again and again.
C30_TerminatesBounded ==
    /\ [](/\ Len(strategies) <= 5 + DistinctModules
          /\ Len(attempts) <= 5 + DistinctModules)
    /\ <>(pc = "done")

\* a run that ended after 5+M failed attempts: every module was named and
\* queued once, and the last failure named a module queued before
C30_Witness ==
    /\ pc = "done"
    /\ Len(strategies) = 5 + DistinctModules
    /\ Len(attempts) = 5 + DistinctModules
    /\ MissingModule(last.result.error) # ""

(***************************************************************************)
(* Properties of the legacy command line (specification SpecCli)           *)
(***************************************************************************)
\* the file suffixes that name an HTML file (main compares case-insensitively)
HtmlSuffixes == {".html", ".HTML"}

\* an .html file or a directory containing index.html
ValidInput(input_path) ==
    \/ input_path.kind = "file" /\ input_path.suffix \in HtmlSuffixes
    \/ input_path.kind = "dir" /\ input_path.has_index

\* a path that does not exist, a file that is not an .html file, or a
\* directory without index.html
RejectedInput(input_path) ==
    \/ input_path.kind = "missing"
    \/ input_path.kind = "file" /\ input_path.suffix \notin HtmlSuffixes
    \/ input_path.kind = "dir" /\ ~input_path.has_index

\* C26: check mode validates without building. For every valid input (an
\* .html file or a directory containing index.html) a run with --check never
\* spawns the backend process, creates no output artifact (the artifact is on
\* disk only if it was there before), calls the packaging step at most once
\* and only with check_mode set; when main has returned, the packaging step
\* was called exactly once with check_mode set and main returned 0.
C26_CheckModeBuildsNothing ==
    (cli_args.check /\ ValidInput(cli_args.input)) =>
        /\ spawned = 0
        /\ (OutputPath \in cli_disk) = cli_args.output_exists
        /\ Len(packaging) <= 1
        /\ \A k \in 1..Len(packaging) : packaging[k]
        /\ cli_pc = "returned" =>
              /\ packaging = <<TRUE>>
              /\ cli_exit = [returned |-> TRUE, code |-> 0, raised |-> ""]

\* a check of a directory with index.html has returned, on a machine whose
\* backend would have exited non-zero, with no artifact on disk before
C26_Witness ==
    /\ cli_pc = "returned"
    /\ cli_args.check
    /\ cli_args.input.kind = "dir" /\ cli_args.input.has_index
    /\ ~cli_args.output_exists
    /\ cli_backend = "exit_nonzero"
    /\ packaging = <<TRUE>>
    /\ cli_exit.code = 0

\* the conversion ran to its end without an exception: every step was called
\* and, unless in check mode, the backend exited 0 and the executable exists
ConversionCompleted ==
    /\ cli_calls = <<"convert_html_to_exe", "validate_input", "prepare_assets",
                     "create_viewer_script", "run_pyinstaller">>
    /\ \/ cli_args.check
       \/ cli_backend # "exit_nonzero" /\ OutputPath \in cli_disk

\* C27: exit-code contract of main. No conversion is ever started for an
\* input path that does not exist, is a file whose suffix is not .html (in any
\* letter case), or is a directory without index.html, and main then returns
\* 1; main ends by returning, never by raising; when a conversion was started
\* and failed, main returns 1; main returns 0 only when the conversion
\* completed without error.
C27_ExitCodeContract ==
    /\ RejectedInput(cli_args.input) => cli_calls = <<>>
    /\ cli_pc = "returned" =>
          /\ cli_exit.returned /\ cli_exit.raised = ""
          /\ cli_exit.code \in {0, 1}
          /\ RejectedInput(cli_args.input) => cli_exit.code = 1
          /\ (cli_calls # <<>> /\ ~ConversionCompleted) => cli_exit.code = 1
          /\ cli_exit.code = 0 => ConversionCompleted

\* a build whose backend exited 0 without writing the executable: the
\* conversion raised RuntimeError and main returned 1
C27_Witness ==
    /\ cli_pc = "returned"
    /\ ~cli_args.check
    /\ cli_backend = "no_artifact"
    /\ ~cli_args.output_exists
    /\ spawned = 1
    /\ cli_exit = [returned |-> TRUE, code |-> 1, raised |-> ""]

(***************************************************************************)
(* Properties of HTMLViewer (specification SpecViewer)                     *)
(***************************************************************************)
\* C28: after cleanup() returns, _temp_dir is None, for every preceding
\* sequence of extract_assets and cleanup calls and whether or not the
\* temporary directory still exists on disk; an extract_assets whose source
\* is missing raises RuntimeError and leaves _temp_dir unchanged.
C28_CleanupClearsTempDir ==
    /\ viewer_last.op = "cleanup" => viewer_temp_dir = 0
    /\ (viewer_last.op = "extract_assets" /\ viewer_last.raised = "RuntimeError")
          => viewer_temp_dir = viewer_last.before

(***************************************************************************)
(* The failure report and the injected hint (specification Spec)           *)
(***************************************************************************)
\* C31: the failure report aggregates all attempts. When a run ends in
\* failure after the queue is exhausted, the strategies_tried of the report
\* equals the number of attempts the run made, injected strategies included.
C31_ReportCountsAttempts ==
    (result.returned /\ result.error.prefix = AllFailedError) =>
        result.strategies_tried = Len(attempts)

\* C33: the injected hint is the module named in the failure output. A step
\* that injects a strategy after a failed attempt whose output reports a
\* missing module X gives it extra_hidden_imports = [X], with X exactly as it
\* stands in the output.
C33_HintIsNamedModule ==
    [][(pc = "loop" /\ Len(strategies') = Len(strategies) + 1) =>
          strategies'[i + 2].extra_hidden_imports
              = <<last'.result.error.out.module>>]_vars

(***************************************************************************)
(* Status and progress of one build of the CI engine (specification SpecCI)*)
(***************************************************************************)
\* C32: single terminal status per build. Within one build() call a terminal
\* status (COMPLETED, FAILED, CANCELLED), once set, is never replaced, so
\* exactly one is set and it is the last status update; build() returns only
\* with a terminal status set, and with success true if and only if that
\* status is COMPLETED; PREPARING is entered only from VALIDATING, BUILDING
\* only from PREPARING, and the backend process is spawned only in BUILDING.
C32_SingleTerminalStatus ==
    [][builds' = builds =>
         /\ status \in Terminal => status' = status
         /\ (bpc' = "returned" /\ bpc # "returned") =>
               /\ status' \in Terminal
               /\ build_result'[1] <=> (status' = "completed")
         /\ (status' = "preparing" /\ status # "preparing") => status = "validating"
         /\ (status' = "building" /\ status # "building") => status = "preparing"
         /\ (proc' = "running" /\ proc # "running") => status = "building"]_vars

\* a build that spawned the backend, saw it exit non-zero and returned FAILED
C32_Witness ==
    /\ bpc = "returned"
    /\ status = "failed"
    /\ process = "set" /\ proc = "exited" /\ returncode # 0
    /\ build_result[1] = FALSE

\* C38: progress never goes backwards. During one build() call the
\* percentage handed to the progress callback is non-decreasing, whatever
\* order the lines of the backend's output arrive in.
C38_ProgressMonotone ==
    [][builds' = builds => progress' >= progress]_vars

(***************************************************************************)
(* Properties of _pre_export_validation (specification SpecPreExport)      *)
(***************************************************************************)
\* C34: validation has no side effects. Whether it passes or fails, the
\* validation pipeline leaves the filesystem as it found it: it does not
\* create the output directory and leaves no file behind.
C34_ValidationLeavesNoTrace ==
    pev_fs = (IF pev_env.output_dir_exists THEN {ExportOutputDir} ELSE {})

(***************************************************************************)
(* Properties of BuildConfig.validate (specification SpecValidate)         *)
(***************************************************************************)
\* the errors each check of validate can append
ErrorsOfCheck ==
    { {"App name must contain alphanumeric characters"},
      {"Source path is required", "Source path not found"},
      {"Icon not found"},
      {"Version must be in format X.Y or X.Y.Z", "Invalid version format"} }

\* C35: one error per check. For every configuration each check of
\* BuildConfig.validate contributes at most one error to the returned list;
\* in particular the version check never appends more than one error for one
\* malformed version string.
C35_OneErrorPerCheck ==
    \A check \in ErrorsOfCheck :
        Cardinality({ k \in 1..Len(val_errors) : val_errors[k] \in check }) <= 1

(***************************************************************************)
(* Properties of the build command (specification SpecPreflight)           *)
(***************************************************************************)
\* C36: user-chosen build flags survive preflight. Once the build command
\* has applied the preflight report, debug, console and upx compression have
\* the values of the command line (no check recommends anything for them),
\* and onefile has the command line's value unless the memory check
\* recommended directory mode.
C36_UserFlagsSurvive ==
    pf_pc = "export" =>
        /\ pf_config.debug = pf_args.debug
        /\ pf_config.console = DefaultBuildConfig.console
        /\ pf_config.upx_compress = pf_args.upx
        /\ pf_config.onefile =
              IF ~pf_args.skip_preflight /\ pf_args.memory = "low"
              THEN FALSE ELSE pf_args.onefile

(***************************************************************************)
(* Properties of the premium GUI worker (specification SpecWorker)         *)
(***************************************************************************)
\* what the worker did for the current request
RequestEvents == SubSeq(gw_events, gw_request.first, Len(gw_events))

C40_NoLostReload ==
    \A v \in 1..MaxMods : (file_version = v) ~> (page_version >= v)
====
